---- MODULE Spec2Model ----
(***************************************************************************)
(* Plan state machine of dev-plan-mcp: the stage update engine             *)
(* (src/src/plan-updater.ts), the stage schema registry and plan generator *)
(* (plan-template.ts), the canonical stage ordering (types.ts) and the     *)
(* built-in workflow catalog (src/src/workflows.ts); the workflow manager  *)
(* over workflows.yml, the checklist editor of src/src/index.ts,           *)
(* generateSlug, two updaters working on one plan file concurrently, and   *)
(* the plan server's tools on the main plan and its subtask plans, alone   *)
(* and with two create_subtask_plan requests interleaved.                  *)
(*                                                                         *)
(* A stored plan is the parsed YAML document: a function from the names of *)
(* the fields that are present to their values.  progress is a function    *)
(* from the stage names that are present to stage entries, and a stage     *)
(* entry is a function from the keys that are present to tagged values.    *)
(***************************************************************************)
EXTENDS Integers, Sequences, FiniteSets, TLC

VARIABLES
    file,       \* the plan file on disk: absent, unparseable, or a plan record
    warnings,   \* PlanUpdater.warnings of the updater instance in use
    before,     \* the plan file as it was when the last updateStage call began
    lastCall,   \* arguments of the last updateStage call (options with defaults applied)
    result,     \* the UpdateResult the last updateStage call returned
    calls,      \* number of updateStage calls made so far (also the clock)
    workflowsFile,  \* .llms/workflows.yml: absent, unparseable, or a catalog
    request,    \* the last call other than a sequential updateStage: its name and arguments
    reply,      \* what that call returned or threw
    updaters,   \* the concurrent PlanUpdater instances, or the request handlers running interleaved
    subtaskFiles    \* .llms/.dev-plan-main/subtasks: the subtask plan file of each slug that has one

vars == <<file, warnings, before, lastCall, result, calls,
          workflowsFile, request, reply, updaters, subtaskFiles>>

\* Number of updateStage calls explored from each initial plan file.
MaxCalls == 2

(***************************************************************************)
(* types.ts                                                                *)
(***************************************************************************)
VALID_STAGES ==
    << "scope_analysis", "context_gathering", "solution_design",
       "implementation", "validation", "documentation", "knowledge_capture" >>

StandardStages == { VALID_STAGES[i] : i \in 1..Len(VALID_STAGES) }

\* STAGE_ORDER[stage]: the 0-based canonical index; Undefined for a name that
\* is no key of the table.
Undefined == -1

\* A table that gives every stage outside VALID_STAGES the first position.
STAGE_ORDER_CustomFirst(stage) ==
    IF stage \in StandardStages
    THEN (CHOOSE i \in 1..Len(VALID_STAGES) : VALID_STAGES[i] = stage) - 1
    ELSE 0

STAGE_ORDER(stage) ==
    IF stage \in StandardStages
    THEN (CHOOSE i \in 1..Len(VALID_STAGES) : VALID_STAGES[i] = stage) - 1
    ELSE Undefined

(***************************************************************************)
(* Tagged values of the YAML document.  Every value carries all fields so  *)
(* that any two values can be compared; t tells which field is meant.      *)
(*   "bool": b    "str": s    "map": m (sub-key -> 0 when absent, else a   *)
(*   scalar)      "arr": a (sequence of item numbers)      "null"          *)
(***************************************************************************)
SubKeys == {"a", "b"}

EmptyMap == [k \in SubKeys |-> 0]

VBool(x) == [t |-> "bool", b |-> x,     s |-> "", m |-> EmptyMap, a |-> <<>>]
VStr(x)  == [t |-> "str",  b |-> FALSE, s |-> x,  m |-> EmptyMap, a |-> <<>>]
VMap(x)  == [t |-> "map",  b |-> FALSE, s |-> "", m |-> x,        a |-> <<>>]
VArr(x)  == [t |-> "arr",  b |-> FALSE, s |-> "", m |-> EmptyMap, a |-> x]
VNull    == [t |-> "null", b |-> FALSE, s |-> "", m |-> EmptyMap, a |-> <<>>]

\* A progress entry that is a YAML string instead of a mapping
\* (tests: plan.progress.implementation = 'invalid structure').
StringEntry == [__string__ |-> VStr("invalid structure")]

IsObject(entry) == "__string__" \notin DOMAIN entry

\* obj[key] of a mapping, "undefined" when the key is absent (string fields).
Get(obj, key) == IF key \in DOMAIN obj THEN obj[key] ELSE "undefined"

\* The object obj with obj[key] = value assigned.
Put(obj, key, value) ==
    [k \in DOMAIN obj \cup {key} |-> IF k = key THEN value ELSE obj[k]]

(***************************************************************************)
(* plan-template.ts: the stage schema registry                             *)
(***************************************************************************)
createStageProgress(stage) ==
    CASE stage = "scope_analysis" ->
           [complete |-> VBool(FALSE), findings |-> VMap(EmptyMap)]
      [] stage = "context_gathering" ->
           [complete |-> VBool(FALSE), findings |-> VMap(EmptyMap)]
      [] stage = "solution_design" ->
           [complete |-> VBool(FALSE), artifacts |-> VMap(EmptyMap),
            checklist |-> VArr(<<>>)]
      [] stage = "implementation" ->
           [complete |-> VBool(FALSE), changes |-> VArr(<<>>)]
      [] stage = "validation" ->
           [complete |-> VBool(FALSE), results |-> VMap(EmptyMap),
            validation_status |-> VStr("in_progress"),
            issues_found |-> VArr(<<>>), fix_cycles |-> VArr(<<>>)]
      [] stage = "documentation" ->
           [complete |-> VBool(FALSE), files |-> VArr(<<>>)]
      [] stage = "knowledge_capture" ->
           [complete |-> VBool(FALSE), learnings |-> VMap(EmptyMap)]
      [] OTHER ->
           [complete |-> VBool(FALSE), data |-> VMap(EmptyMap), notes |-> VArr(<<>>)]

(***************************************************************************)
(* workflows.ts: a catalog (WorkflowsConfig) is the built-in one or the    *)
(* content of .llms/workflows.yml                                          *)
(***************************************************************************)
getDefaultWorkflows ==
    [ workflows |->
        [ micro  |-> << "implementation" >>,
          small  |-> << "scope_analysis", "context_gathering", "implementation",
                        "validation" >>,
          medium |-> << "scope_analysis", "context_gathering", "solution_design",
                        "implementation", "validation", "documentation" >>,
          large  |-> VALID_STAGES,
          epic   |-> VALID_STAGES ],
      default |->
          << "scope_analysis", "context_gathering", "solution_design",
             "implementation", "validation" >> ]

\* workflows.yml of the test 'PlanUpdater handles custom stages'.
CustomWorkflows ==
    [ workflows |-> [ custom |-> << "research", "prototype", "deploy" >> ],
      default |-> << "implementation" >> ]

\* Names every JavaScript object inherits from Object.prototype: for them
\* workflows.workflows[name] is a function, which is truthy and has no steps.
ObjectPrototypeNames == {"constructor", "toString"}

\* A returned steps value: an array, or undefined.
DefinedSteps(steps) == [defined |-> TRUE, steps |-> steps]

UndefinedSteps == [defined |-> FALSE, steps |-> <<>>]

\* getWorkflowSteps as the code resolves it: the value of
\* workflows.workflows[workflowType].steps when workflows.workflows[workflowType]
\* is truthy, else workflows.default.steps.
resolveWorkflowSteps(catalog, workflowType) ==
    IF workflowType \in DOMAIN catalog.workflows
    THEN DefinedSteps(catalog.workflows[workflowType])
    ELSE IF workflowType \in ObjectPrototypeNames
    THEN UndefinedSteps
    ELSE DefinedSteps(catalog.default)

\* The steps array getWorkflowSteps returns (empty when it returns undefined).
getWorkflowSteps(catalog, workflowType) ==
    resolveWorkflowSteps(catalog, workflowType).steps

(***************************************************************************)
(* plan-template.ts: generatePlan.  options is a function from the option  *)
(* names that were passed to their values; catalog is what the workflow    *)
(* manager of options.baseDir loads.                                       *)
(***************************************************************************)
generatePlan(catalog, taskDescription, taskSlug, options, now) ==
    LET type == IF "type" \in DOMAIN options THEN options["type"] ELSE "plan"
        defaultStatus == IF type = "subtask" THEN "pending" ELSE "active"
        workflow == IF "workflow" \in DOMAIN options THEN options["workflow"] ELSE "medium"
        steps == getWorkflowSteps(catalog, workflow)
        initialPhase ==
            IF "initialPhase" \in DOMAIN options THEN options["initialPhase"]
            ELSE IF Len(steps) > 0 THEN steps[1] ELSE "scope_analysis"
    IN  [ task     |-> taskDescription,
          slug     |-> taskSlug,
          workflow |-> workflow,
          phase    |-> initialPhase,
          status   |-> IF "status" \in DOMAIN options THEN options["status"]
                       ELSE defaultStatus,
          priority |-> IF "priority" \in DOMAIN options THEN options["priority"]
                       ELSE "medium",
          created  |-> now,
          updated  |-> now,
          sub_tasks |-> <<>>,
          progress |-> [ step \in { steps[i] : i \in 1..Len(steps) } |->
                           createStageProgress(step) ] ]

(***************************************************************************)
(* plan-updater.ts.  A thrown Error is an error record; a warning pushed   *)
(* on this.warnings is a warning record holding what its message names.    *)
(***************************************************************************)
Err(kind, target, missing) == [kind |-> kind, target |-> target, missing |-> missing]

NoError == Err("none", "", <<>>)

Warn(kind, from, to, stages) == [kind |-> kind, from |-> from, to |-> to, stages |-> stages]

\* UpdateOptions with the defaults of updateStage applied:
\* { force: false, markComplete: true, ...options }
WithDefaults(options) == options @@ [force |-> FALSE, markComplete |-> TRUE]

\* A loadPlan that gives every standard stage without an entry its empty shape.
loadPlan_SynthesiseStages(f) ==
    IF f.kind = "absent" THEN [ok |-> FALSE, plan |-> <<>>, error |-> Err("PlanNotFound", "", <<>>)]
    ELSE IF f.kind = "corrupt" THEN [ok |-> FALSE, plan |-> <<>>, error |-> Err("PlanCorrupt", "", <<>>)]
    ELSE LET p1 == IF "progress" \in DOMAIN f.plan THEN f.plan ELSE Put(f.plan, "progress", <<>>)
             p2 == IF "phase" \in DOMAIN p1 THEN p1 ELSE Put(p1, "phase", "scope_analysis")
             filled == [stage \in DOMAIN p2.progress \cup StandardStages |->
                           IF stage \in DOMAIN p2.progress THEN p2.progress[stage]
                           ELSE createStageProgress(stage)]
         IN  [ok |-> TRUE, plan |-> Put(p2, "progress", filled), error |-> NoError]

\* loadPlan: the parsed document with progress and phase defaulted.
loadPlan(f) ==
    IF f.kind = "absent" THEN [ok |-> FALSE, plan |-> <<>>, error |-> Err("PlanNotFound", "", <<>>)]
    ELSE IF f.kind = "corrupt" THEN [ok |-> FALSE, plan |-> <<>>, error |-> Err("PlanCorrupt", "", <<>>)]
    ELSE LET p1 == IF "progress" \in DOMAIN f.plan THEN f.plan ELSE Put(f.plan, "progress", <<>>)
             p2 == IF "phase" \in DOMAIN p1 THEN p1 ELSE Put(p1, "phase", "scope_analysis")
         IN  [ok |-> TRUE, plan |-> p2, error |-> NoError]

\* isStageComplete: progress[stage]?.complete === true
isStageComplete(plan, stage) ==
    /\ stage \in DOMAIN plan.progress
    /\ "complete" \in DOMAIN plan.progress[stage]
    /\ plan.progress[stage]["complete"] = VBool(TRUE)

\* allStagesComplete: every key of progress is complete
allStagesComplete(plan) ==
    \A stage \in DOMAIN plan.progress : isStageComplete(plan, stage)

\* A jump check that skips the current stage and walks only the stages
\* strictly between current and target.
InspectedStages_SkipCurrent(currentStageIndex, targetStageIndex) ==
    SubSeq(VALID_STAGES, currentStageIndex + 2, targetStageIndex)

\* The stages the jump check of validateStage walks over:
\* for (i = currentStageIndex; i < targetStageIndex; i++) VALID_STAGES[i]
InspectedStages(currentStageIndex, targetStageIndex) ==
    SubSeq(VALID_STAGES, currentStageIndex + 1, targetStageIndex)

\* A jump check that also counts the inspected stages progress has no entry for.
MissingStages_CountAbsent(plan, currentStageIndex, targetStageIndex) ==
    LET Missing(stage) == ~isStageComplete(plan, stage)
    IN  SelectSeq(InspectedStages(currentStageIndex, targetStageIndex), Missing)

\* missingStages of validateStage: inspected stages that are present in
\* progress and not complete, in canonical order.
MissingStages(plan, currentStageIndex, targetStageIndex) ==
    LET Missing(stage) == stage \in DOMAIN plan.progress /\ ~isStageComplete(plan, stage)
    IN  SelectSeq(InspectedStages(currentStageIndex, targetStageIndex), Missing)

\* The warning validateStage pushes first for a stage outside VALID_STAGES.
CustomStageWarnings(targetStage, force, ws) ==
    IF targetStage \notin StandardStages /\ ~force
    THEN Append(ws, Warn("CustomStageDetected", "", targetStage, <<>>))
    ELSE ws

\* The warning about the plan status at the end of validateStage.
StatusWarnings(plan, ws) ==
    IF Get(plan, "status") = "completed" THEN Append(ws, Warn("AlreadyCompleted", "", "", <<>>))
    ELSE IF Get(plan, "status") = "failed" THEN Append(ws, Warn("MarkedFailed", "", "", <<>>))
    ELSE ws

\* What validateStage does once the missing stages of a jump are known.
JumpDecision(currentStage, targetStage, force, missingStages, ws) ==
    IF Len(missingStages) > 0
    THEN IF force
         THEN [ok |-> TRUE, error |-> NoError,
               warnings |-> Append(ws, Warn("ForcingJump", "", targetStage, missingStages))]
         ELSE [ok |-> FALSE, warnings |-> ws,
               error |-> Err("StageOrderViolation", targetStage, missingStages)]
    ELSE [ok |-> TRUE, error |-> NoError,
          warnings |-> Append(ws, Warn("Jumping", currentStage, targetStage, <<>>))]

validateStage(plan, targetStage, force, ws) ==
    LET isKnownStage == targetStage \in StandardStages
        w1 == CustomStageWarnings(targetStage, force, ws)
        currentStage == plan.phase
        currentStageIndex == STAGE_ORDER(currentStage)
        targetStageIndex == STAGE_ORDER(targetStage)
    IN  IF currentStageIndex = Undefined \/ targetStageIndex = Undefined
        THEN [ok |-> TRUE, error |-> NoError,
              warnings |-> IF ~isKnownStage
                           THEN Append(w1, Warn("CannotValidateOrder", "", targetStage, <<>>))
                           ELSE w1]
        ELSE LET order ==
                   IF targetStageIndex < currentStageIndex
                   THEN [ok |-> TRUE, error |-> NoError,
                         warnings |-> Append(w1, Warn("MovingBackwards", currentStage, targetStage, <<>>))]
                   ELSE IF targetStageIndex > currentStageIndex + 1
                   THEN JumpDecision(currentStage, targetStage, force,
                                     MissingStages(plan, currentStageIndex, targetStageIndex), w1)
                   ELSE [ok |-> TRUE, error |-> NoError, warnings |-> w1]
             IN  IF order.ok
                 THEN [order EXCEPT !.warnings = StatusWarnings(plan, order.warnings)]
                 ELSE order

\* A mapping stored under a sub-key: the value that stands for the nested
\* mapping { a: x, b: y } among the sub-key values (x, y in 0..2, 0 for a
\* key that is absent).  The values 1 and 2 are scalars.
NestedMap(x, y) == 10 + 3 * x + y

IsNestedMap(v) == v >= 10

\* nested[k] of a nested mapping, 0 when the key is absent.
NestedGet(v, k) == IF k = "a" THEN (v - 10) \div 3 ELSE (v - 10) % 3

\* An updateStageSection that always replaces the existing value.
MergeSectionValue_Replace(stageProgress, key, value) == value

\* An updateStageSection that merges two mappings recursively.
MergeSectionValue_Deep(stageProgress, key, value) ==
    LET Deep(old, new) ==
            IF new = 0 THEN old
            ELSE IF IsNestedMap(old) /\ IsNestedMap(new)
            THEN NestedMap(IF NestedGet(new, "a") # 0 THEN NestedGet(new, "a")
                           ELSE NestedGet(old, "a"),
                           IF NestedGet(new, "b") # 0 THEN NestedGet(new, "b")
                           ELSE NestedGet(old, "b"))
            ELSE new
    IN  IF /\ key \in DOMAIN stageProgress
           /\ stageProgress[key].t = "map"
           /\ value.t = "map"
        THEN VMap([k \in SubKeys |-> Deep(stageProgress[key].m[k], value.m[k])])
        ELSE value

\* One key of updateStageSection: two non-array mappings are merged by
\* { ...existing, ...value }, anything else is replaced by value.
MergeSectionValue(stageProgress, key, value) ==
    IF /\ key \in DOMAIN stageProgress
       /\ stageProgress[key].t = "map"
       /\ value.t = "map"
    THEN VMap([k \in SubKeys |-> IF value.m[k] # 0 THEN value.m[k]
                                 ELSE stageProgress[key].m[k]])
    ELSE value

\* updateStageSection: create the entry of the stage when progress has none,
\* then assign every key of sectionData.  Assigning a property on a string
\* entry throws a TypeError (the module is strict-mode code).
updateStageSection(plan, stage, sectionData) ==
    LET progress1 == IF stage \notin DOMAIN plan.progress
                     THEN Put(plan.progress, stage, createStageProgress(stage))
                     ELSE plan.progress
        stageProgress == progress1[stage]
        created == [plan EXCEPT !.progress = progress1]
    IN  IF DOMAIN sectionData = {}
        THEN [ok |-> TRUE, plan |-> created]
        ELSE IF ~IsObject(stageProgress)
        THEN [ok |-> FALSE, plan |-> created]
        ELSE [ok |-> TRUE,
              plan |-> [plan EXCEPT !.progress =
                  Put(progress1, stage,
                      [key \in DOMAIN stageProgress \cup DOMAIN sectionData |->
                          IF key \in DOMAIN sectionData
                          THEN MergeSectionValue(stageProgress, key, sectionData[key])
                          ELSE stageProgress[key]])]]

\* A marking loop that stops one stage early (i < targetStageIndex - 1).
StagesToMark_StopEarly(currentStageIndex, targetStageIndex) ==
    IF /\ currentStageIndex # Undefined
       /\ targetStageIndex # Undefined
       /\ targetStageIndex > currentStageIndex
    THEN { VALID_STAGES[i] : i \in 1..(targetStageIndex - 1) }
    ELSE {}

\* The standard stages updatePlanStructure marks complete before it moves the
\* phase: for (i = 0; i < targetStageIndex; i++) when moving forward.
StagesToMark(currentStageIndex, targetStageIndex) ==
    IF /\ currentStageIndex # Undefined
       /\ targetStageIndex # Undefined
       /\ targetStageIndex > currentStageIndex
    THEN { VALID_STAGES[i] : i \in 1..targetStageIndex }
    ELSE {}

\* The marking loop; (progress[stage] as any).complete = true throws a
\* TypeError on a string entry.
MarkPreviousStages(plan, targetStage) ==
    LET toMark == StagesToMark(STAGE_ORDER(plan.phase), STAGE_ORDER(targetStage))
                     \cap DOMAIN plan.progress
    IN  IF \E stage \in toMark : ~IsObject(plan.progress[stage])
        THEN [ok |-> FALSE, plan |-> plan]
        ELSE [ok |-> TRUE,
              plan |-> [plan EXCEPT !.progress =
                  [stage \in DOMAIN plan.progress |->
                      IF stage \in toMark
                      THEN Put(plan.progress[stage], "complete", VBool(TRUE))
                      ELSE plan.progress[stage]]]]

\* The marking that assigns the flag: complete = options.markComplete.
MarkTargetComplete_Assign(plan, targetStage, markComplete) ==
    IF targetStage \notin DOMAIN plan.progress THEN [ok |-> FALSE, plan |-> plan]
    ELSE IF ~IsObject(plan.progress[targetStage]) THEN [ok |-> FALSE, plan |-> plan]
    ELSE [ok |-> TRUE,
          plan |-> [plan EXCEPT !.progress =
              Put(plan.progress, targetStage,
                  Put(plan.progress[targetStage], "complete", VBool(markComplete)))]]

\* A target marking that ignores options.markComplete.
MarkTargetComplete_Always(plan, targetStage, markComplete) ==
    IF targetStage \notin DOMAIN plan.progress THEN [ok |-> FALSE, plan |-> plan]
    ELSE IF ~IsObject(plan.progress[targetStage]) THEN [ok |-> FALSE, plan |-> plan]
    ELSE [ok |-> TRUE,
          plan |-> [plan EXCEPT !.progress =
              Put(plan.progress, targetStage,
                  Put(plan.progress[targetStage], "complete", VBool(TRUE)))]]

\* if (options.markComplete) progress[targetStage].complete = true: a
\* TypeError when progress has no entry for the stage, or a string.
MarkTargetComplete(plan, targetStage, markComplete) ==
    IF ~markComplete THEN [ok |-> TRUE, plan |-> plan]
    ELSE IF targetStage \notin DOMAIN plan.progress THEN [ok |-> FALSE, plan |-> plan]
    ELSE IF ~IsObject(plan.progress[targetStage]) THEN [ok |-> FALSE, plan |-> plan]
    ELSE [ok |-> TRUE,
          plan |-> [plan EXCEPT !.progress =
              Put(plan.progress, targetStage,
                  Put(plan.progress[targetStage], "complete", VBool(TRUE)))]]

\* A status update that never marks the plan completed.
RecomputeStatus_NeverCompletes(plan, ws) ==
    IF Get(plan, "status") = "completed" /\ ~allStagesComplete(plan)
    THEN [plan |-> Put(plan, "status", "active"),
          warnings |-> Append(ws, Warn("StatusChangedToActive", "", "", <<>>))]
    ELSE [plan |-> plan, warnings |-> ws]

\* A status update that never reopens a completed plan.
RecomputeStatus_NoReopen(plan, ws) ==
    IF allStagesComplete(plan)
    THEN [plan |-> Put(plan, "status", "completed"),
          warnings |-> Append(ws, Warn("AllStagesComplete", "", "", <<>>))]
    ELSE [plan |-> plan, warnings |-> ws]

\* Update status if all stages are complete, else reopen a completed plan.
RecomputeStatus(plan, ws) ==
    IF allStagesComplete(plan)
    THEN [plan |-> Put(plan, "status", "completed"),
          warnings |-> Append(ws, Warn("AllStagesComplete", "", "", <<>>))]
    ELSE IF Get(plan, "status") = "completed"
    THEN [plan |-> Put(plan, "status", "active"),
          warnings |-> Append(ws, Warn("StatusChangedToActive", "", "", <<>>))]
    ELSE [plan |-> plan, warnings |-> ws]

updatePlanStructure(plan, targetStage, opts, ws, now) ==
    LET typeError == Err("TypeError", "", <<>>)
        marked == MarkPreviousStages(plan, targetStage)
        moved == Put(marked.plan, "phase", targetStage)
        section == IF "sectionData" \in DOMAIN opts
                   THEN updateStageSection(moved, targetStage, opts.sectionData)
                   ELSE [ok |-> TRUE, plan |-> moved]
        completed == MarkTargetComplete(section.plan, targetStage, opts.markComplete)
        status == RecomputeStatus(completed.plan, ws)
    IN  IF ~marked.ok
        THEN [ok |-> FALSE, plan |-> marked.plan, warnings |-> ws, error |-> typeError]
        ELSE IF ~section.ok
        THEN [ok |-> FALSE, plan |-> section.plan, warnings |-> ws, error |-> typeError]
        ELSE IF ~completed.ok
        THEN [ok |-> FALSE, plan |-> completed.plan, warnings |-> ws, error |-> typeError]
        ELSE [ok |-> TRUE, plan |-> Put(status.plan, "updated", now),
              warnings |-> status.warnings, error |-> NoError]

requiredFields == <<"task", "slug", "workflow", "phase", "status", "created", "updated">>

\* validatePlanStructure: the first missing required field, else a progress
\* entry that is no mapping or has no 'complete' key.  (The message of the
\* latter names the first offending stage in key order; key order is not
\* part of this model.)
validatePlanStructure(plan) ==
    LET absent == SelectSeq(requiredFields, LAMBDA field : field \notin DOMAIN plan)
    IN  IF Len(absent) > 0 THEN Err("MissingRequiredField", absent[1], <<>>)
        ELSE IF \E stage \in DOMAIN plan.progress :
                    \/ ~IsObject(plan.progress[stage])
                    \/ "complete" \notin DOMAIN plan.progress[stage]
        THEN Err("InvalidProgressStructure", "", <<>>)
        ELSE NoError

\* A savePlan that writes the file before it validates the plan.
savePlan_WriteFirst(f, plan) ==
    LET error == validatePlanStructure(plan)
    IN  [ok |-> error = NoError, file |-> [kind |-> "plan", plan |-> plan], error |-> error]

\* A savePlan that dumps the required fields of the plan only.
savePlan_RequiredFieldsOnly(f, plan) ==
    LET error == validatePlanStructure(plan)
        required == { requiredFields[i] : i \in 1..Len(requiredFields) }
    IN  IF error # NoError
        THEN [ok |-> FALSE, file |-> f, error |-> error]
        ELSE [ok |-> TRUE, error |-> NoError,
              file |-> [kind |-> "plan",
                        plan |-> [field \in DOMAIN plan \cap (required \cup {"updated"}) |-> plan[field]]]]

\* savePlan: validate, then overwrite the whole file with the dumped plan.
savePlan(f, plan) ==
    LET error == validatePlanStructure(plan)
    IN  IF error # NoError
        THEN [ok |-> FALSE, file |-> f, error |-> error]
        ELSE [ok |-> TRUE, file |-> [kind |-> "plan", plan |-> plan], error |-> NoError]

Failure(error) ==
    [success |-> FALSE, stage |-> "", updatedAt |-> 0, warnings |-> <<>>, error |-> error]

\* updateStage: load, validate, update, save; any throw is caught and
\* returned as { success: false, error }.  Yields the file and this.warnings
\* after the call and the returned UpdateResult.
updateStage(f, targetStage, opts, ws, now) ==
    LET loaded == loadPlan(f)
        valid == validateStage(loaded.plan, targetStage, opts.force, ws)
        updated == updatePlanStructure(loaded.plan, targetStage, opts, valid.warnings, now)
        saved == savePlan(f, updated.plan)
    IN  IF ~loaded.ok
        THEN [file |-> f, warnings |-> ws, result |-> Failure(loaded.error)]
        ELSE IF ~valid.ok
        THEN [file |-> f, warnings |-> valid.warnings, result |-> Failure(valid.error)]
        ELSE IF ~updated.ok
        THEN [file |-> f, warnings |-> updated.warnings, result |-> Failure(updated.error)]
        ELSE IF ~saved.ok
        THEN [file |-> saved.file, warnings |-> updated.warnings, result |-> Failure(saved.error)]
        ELSE [file |-> saved.file, warnings |-> updated.warnings,
              result |-> [success |-> TRUE, stage |-> targetStage,
                          updatedAt |-> updated.plan.updated,
                          warnings |-> updated.warnings, error |-> NoError]]

(***************************************************************************)
(* The plan files the runs start from                                      *)
(***************************************************************************)
AbsentFile == [kind |-> "absent", plan |-> <<>>]

\* A file whose content is no YAML mapping.
CorruptFile == [kind |-> "corrupt", plan |-> <<>>]

PlanFile(plan) == [kind |-> "plan", plan |-> plan]

\* Option sets handed to generatePlan (create_plan, create_subtask_plan, tests)
\* under the built-in catalog: a failed micro plan, a pending small subtask
\* plan and a large plan.
PlanOptionSets ==
    { [workflow |-> "micro", status |-> "failed"],
      [workflow |-> "small", type |-> "subtask"],
      [workflow |-> "large"] }

\* The plans generated from them, and a plan of the custom workflow.
GeneratedPlans ==
    { generatePlan(getDefaultWorkflows, "Test Task", "test-task", o, 0) : o \in PlanOptionSets }
      \cup { generatePlan(CustomWorkflows, "Custom Test", "custom-test",
                          [workflow |-> "custom", priority |-> "high"], 0) }

\* Plan files the tests write after editing a generated plan:
\* a plan with only task and progress: {} ('missing required fields'),
IncompletePlan == [task |-> "Incomplete Plan", progress |-> <<>>]

\* a micro plan whose implementation entry is a string ('invalid progress structure'),
InvalidProgressPlan ==
    [generatePlan(getDefaultWorkflows, "Test Invalid Progress", "test-invalid",
                  [workflow |-> "micro"], 0)
        EXCEPT !.progress = [stage \in {"implementation"} |-> StringEntry]]

\* a small plan with the validation entry deleted ('initializes missing stage').
MissingStagePlan ==
    LET plan == generatePlan(getDefaultWorkflows, "Test Init", "test-init",
                             [workflow |-> "small"], 0)
    IN  [plan EXCEPT !.progress =
            [stage \in DOMAIN plan.progress \ {"validation"} |-> plan.progress[stage]]]

InitialFiles ==
    {AbsentFile, CorruptFile}
      \cup { PlanFile(p) : p \in GeneratedPlans }
      \cup { PlanFile(IncompletePlan), PlanFile(InvalidProgressPlan),
             PlanFile(MissingStagePlan) }

(***************************************************************************)
(* Inputs of updateStage                                                   *)
(***************************************************************************)
\* The seven standard stages and a stage of the custom workflow.
Targets == StandardStages \cup {"prototype"}

\* sectionData objects of the stage-flow runs: {} (what the update_plan tool
\* passes when the caller gives none).
FlowSectionData == { <<>> }

\* sectionData objects of the section-data runs: mappings (two of them with
\* a nested mapping under a sub-key), sequences, scalars and null under a key
\* of the stage, and the key 'complete' itself.
MergeSectionData ==
    { [findings |-> VMap([EmptyMap EXCEPT !["a"] = 1])],
      [findings |-> VMap([EmptyMap EXCEPT !["b"] = 2])],
      [findings |-> VMap([EmptyMap EXCEPT !["a"] = 2])],
      [findings |-> VMap([EmptyMap EXCEPT !["a"] = NestedMap(1, 0), !["b"] = 2])],
      [findings |-> VMap([EmptyMap EXCEPT !["a"] = NestedMap(0, 2)])],
      [findings |-> VArr(<<1>>)],
      [findings |-> VStr("text")],
      [findings |-> VNull],
      [data |-> VMap([EmptyMap EXCEPT !["a"] = 1]), notes |-> VArr(<<1>>)],
      [notes |-> VArr(<<2>>)],
      [complete |-> VBool(TRUE)],
      [complete |-> VBool(FALSE)],
      [complete |-> VStr("yes")] }

\* The options objects { force?, markComplete?, sectionData? }; an omitted
\* key takes its default.
OptionsOver(forces, sectionInputs) ==
    LET marks == { <<>>, [markComplete |-> FALSE] }
        datas == { <<>> } \cup { [sectionData |-> d] : d \in sectionInputs }
    IN  { f @@ m @@ d : f \in forces, m \in marks, d \in datas }

NoCall ==
    [stage |-> "", force |-> FALSE, markComplete |-> FALSE, given |-> FALSE,
     sectionData |-> <<>>]

NoResult == [success |-> FALSE, stage |-> "", updatedAt |-> 0, warnings |-> <<>>,
             error |-> Err("NoCall", "", <<>>)]

\* No catalog file, no other call made, no concurrent updater constructed.
AbsentCatalog == [kind |-> "absent"]

NoRequest == [op |-> "none"]

NoReply == [ok |-> FALSE, error |-> "NoCall"]

NoUpdaters == <<>>

\* No subtask plan file exists.
NoSubtaskFiles == <<>>

OnlySequentialUpdates ==
    /\ workflowsFile = AbsentCatalog
    /\ request = NoRequest
    /\ reply = NoReply
    /\ updaters = NoUpdaters
    /\ subtaskFiles = NoSubtaskFiles

Init ==
    /\ file \in InitialFiles
    /\ warnings = <<>>
    /\ before = file
    /\ lastCall = NoCall
    /\ result = NoResult
    /\ calls = 0
    /\ OnlySequentialUpdates

\* updater.updateStage(targetStage, options) on an updater whose warnings
\* list holds updaterWarnings when the call begins.
UpdateStage(updaterWarnings, targetStage, options) ==
    /\ calls < MaxCalls
    /\ LET opts == WithDefaults(options)
           out == updateStage(file, targetStage, opts, updaterWarnings, calls + 1)
       IN  /\ file' = out.file
           /\ warnings' = out.warnings
           /\ result' = out.result
           /\ lastCall' = [stage |-> targetStage, force |-> opts.force,
                           markComplete |-> opts.markComplete,
                           given |-> "sectionData" \in DOMAIN opts,
                           sectionData |-> IF "sectionData" \in DOMAIN opts
                                           THEN opts.sectionData ELSE <<>>]
    /\ before' = file
    /\ calls' = calls + 1
    /\ UNCHANGED <<workflowsFile, request, reply, updaters, subtaskFiles>>

\* Every call is made on a newly constructed PlanUpdater, whose warnings
\* list is empty (as the update_plan tool does for every request).
Next ==
    \E targetStage \in Targets,
       options \in OptionsOver({ <<>>, [force |-> TRUE] }, FlowSectionData) :
        UpdateStage(<<>>, targetStage, options)

Spec == Init /\ [][Next]_vars

(***************************************************************************)
(* Section-data runs: updates of one standard and one custom stage of a    *)
(* generated plan, with every kind of sectionData value.                   *)
(***************************************************************************)
MergeTargets == {"context_gathering", "prototype"}

InitMerge ==
    /\ file \in { PlanFile(generatePlan(getDefaultWorkflows, "Test Merge", "test-merge",
                                       [workflow |-> "small"], 0)),
                  PlanFile(generatePlan(CustomWorkflows, "Custom Test", "custom-test",
                                       [workflow |-> "custom"], 0)) }
    /\ warnings = <<>>
    /\ before = file
    /\ lastCall = NoCall
    /\ result = NoResult
    /\ calls = 0
    /\ OnlySequentialUpdates

NextMerge ==
    \E targetStage \in MergeTargets, options \in OptionsOver({ <<>> }, MergeSectionData) :
        UpdateStage(<<>>, targetStage, options)

SpecMerge == InitMerge /\ [][NextMerge]_vars

(***************************************************************************)
(* Properties.  They are stated over the last updateStage call: its        *)
(* arguments (lastCall), the plan file when it began (before), the plan    *)
(* file when it returned (file) and its result.                            *)
(***************************************************************************)
Called == calls > 0

Succeeded == Called /\ result.success

\* The last call found a plan file it could load.
Loaded == Called /\ before.kind = "plan"

\* The current stage and progress map updateStage works on (the defaults of
\* loadPlan for a record without them).
CurrentStage(f) == IF "phase" \in DOMAIN f.plan THEN f.plan["phase"] ELSE "scope_analysis"

ProgressOf(f) == IF "progress" \in DOMAIN f.plan THEN f.plan["progress"] ELSE <<>>

StatusOf(f) == IF "status" \in DOMAIN f.plan THEN f.plan["status"] ELSE "undefined"

\* The entry of the stage is present with complete == true.
Done(f, stage) ==
    /\ stage \in DOMAIN ProgressOf(f)
    /\ "complete" \in DOMAIN ProgressOf(f)[stage]
    /\ ProgressOf(f)[stage]["complete"] = VBool(TRUE)

AllDone(f) == \A stage \in DOMAIN ProgressOf(f) : Done(f, stage)

\* A plan record as generatePlan and updateStage write it: every required
\* field present, every progress entry a mapping with a complete key.
WellFormed(f) ==
    /\ f.kind = "plan"
    /\ {"task", "slug", "workflow", "phase", "status", "created", "updated", "progress"}
          \subseteq DOMAIN f.plan
    /\ \A stage \in DOMAIN f.plan["progress"] :
          /\ IsObject(f.plan["progress"][stage])
          /\ "complete" \in DOMAIN f.plan["progress"][stage]

Index(stage) == CHOOSE i \in 0..6 : VALID_STAGES[i + 1] = stage

\* Current and target are standard stages and the target lies more than one
\* canonical position ahead.
IsJump ==
    /\ Loaded
    /\ CurrentStage(before) \in StandardStages
    /\ lastCall.stage \in StandardStages
    /\ Index(lastCall.stage) > Index(CurrentStage(before)) + 1

\* The stages the jump check inspects (from the current stage up to, not
\* including, the target) that are present in progress and not complete, in
\* canonical order.
IncompleteInspected ==
    LET Hit(stage) ==
            /\ Index(stage) >= Index(CurrentStage(before))
            /\ Index(stage) < Index(lastCall.stage)
            /\ stage \in DOMAIN ProgressOf(before)
            /\ ~Done(before, stage)
    IN  SelectSeq(VALID_STAGES, Hit)

HasWarning(kind) == \E i \in 1..Len(result.warnings) : result.warnings[i].kind = kind

C2_ForcedJumpSucceeds ==
    (IsJump /\ WellFormed(before) /\ lastCall.force /\ Len(IncompleteInspected) > 0)
        => /\ result.success
           /\ CurrentStage(file) = lastCall.stage
           /\ \E i \in 1..Len(result.warnings) :
                 result.warnings[i] = Warn("ForcingJump", "", lastCall.stage, IncompleteInspected)

\* C3: after a successful forward update between standard stages every
\* standard stage before the target that is present in progress is complete,
\* the current stage is the target, and no standard stage before the target
\* that was absent from progress has been created.
C3_ForwardMarksPrevious ==
    (/\ Succeeded
     /\ CurrentStage(before) \in StandardStages
     /\ lastCall.stage \in StandardStages
     /\ Index(lastCall.stage) > Index(CurrentStage(before)))
        => /\ \A stage \in StandardStages :
                 (Index(stage) < Index(lastCall.stage) /\ stage \in DOMAIN ProgressOf(file))
                     => Done(file, stage)
           /\ CurrentStage(file) = lastCall.stage
           /\ \A stage \in StandardStages :
                 (Index(stage) < Index(lastCall.stage) /\ stage \notin DOMAIN ProgressOf(before))
                     => stage \notin DOMAIN ProgressOf(file)

\* A forward update that completed a previously incomplete earlier stage and
\* passed over a stage the plan does not have.
C3_Witness ==
    /\ Succeeded
    /\ CurrentStage(before) \in StandardStages
    /\ lastCall.stage \in StandardStages
    /\ Index(lastCall.stage) > Index(CurrentStage(before))
    /\ \E stage \in StandardStages :
          /\ Index(stage) < Index(lastCall.stage)
          /\ stage \in DOMAIN ProgressOf(before)
          /\ ~Done(before, stage) /\ Done(file, stage)
    /\ \E stage \in StandardStages :
          /\ Index(stage) < Index(lastCall.stage)
          /\ stage \notin DOMAIN ProgressOf(file)

\* C4: in the record a successful updateStage persisted, status is
\* 'completed' exactly when every progress entry has complete == true, and
\* then the result carries the 'All stages complete' warning.
C4_CompletedIffAllDone ==
    Succeeded
        => /\ (StatusOf(file) = "completed") <=> AllDone(file)
           /\ AllDone(file) => HasWarning("AllStagesComplete")

\* An update completed the last incomplete entry of a plan with several stages.
C4_Witness ==
    /\ Succeeded
    /\ StatusOf(before) # "completed" /\ ~AllDone(before)
    /\ Cardinality(DOMAIN ProgressOf(file)) > 1
    /\ StatusOf(file) = "completed" /\ AllDone(file)

\* C5: a successful update of a plan whose status was 'completed' that leaves
\* an incomplete entry resets the status to 'active' with a 'status changed'
\* warning; any other status is left as it was when not all entries are
\* complete.
C5_ReopenCompleted ==
    (Succeeded /\ ~AllDone(file))
        => /\ StatusOf(before) = "completed"
                => (StatusOf(file) = "active" /\ HasWarning("StatusChangedToActive"))
           /\ StatusOf(before) # "completed" => StatusOf(file) = StatusOf(before)

\* A completed plan received an update that left an incomplete entry.
C5_Witness ==
    /\ Succeeded /\ ~AllDone(file)
    /\ StatusOf(before) = "completed"
    /\ StatusOf(file) = "active"

\* C6: whenever updateStage returns success = false the stored plan file is
\* exactly what it was before the call.
C6_FailureWritesNothing ==
    (Called /\ ~result.success) => file = before

\* A call failed at persistence, after the update had been applied in memory.
C6_Witness ==
    /\ Called /\ ~result.success
    /\ result.error.kind \in {"MissingRequiredField", "InvalidProgressStructure"}

\* The sectionData of the last call, and the entry of its target stage when
\* the call began (no keys when progress had no entry: the registry's empty
\* mappings merge to the new value).
SectionData == lastCall.sectionData

PriorEntry ==
    IF lastCall.stage \in DOMAIN ProgressOf(before)
    THEN ProgressOf(before)[lastCall.stage]
    ELSE <<>>

TargetEntry == ProgressOf(file)[lastCall.stage]

\* What the claimed merge policy makes of a sectionData key: two mappings
\* merge (new sub-keys win, untouched ones survive), anything else is replaced.
ExpectedSectionValue(key) ==
    IF /\ key \in DOMAIN PriorEntry
       /\ PriorEntry[key].t = "map"
       /\ SectionData[key].t = "map"
    THEN VMap([k \in SubKeys |-> IF SectionData[key].m[k] # 0 THEN SectionData[key].m[k]
                                 ELSE PriorEntry[key].m[k]])
    ELSE SectionData[key]

\* C7 as claimed: after a successful call every sectionData key holds the
\* merge of the stored and the new mapping, or else the new value.
C7_MergeOrReplace ==
    (Succeeded /\ lastCall.given)
        => \A key \in DOMAIN SectionData : TargetEntry[key] = ExpectedSectionValue(key)

\* C7, amended: as claimed for every key except that the key 'complete' ends
\* as true when markComplete is true.
C7_MergeOrReplaceButComplete ==
    (Succeeded /\ lastCall.given)
        => \A key \in DOMAIN SectionData :
              IF key = "complete" /\ lastCall.markComplete
              THEN TargetEntry[key] = VBool(TRUE)
              ELSE TargetEntry[key] = ExpectedSectionValue(key)

\* The second of two successive calls on a stage added a sub-key to a mapping
\* that kept a sub-key of the first call.
C7_Witness ==
    /\ Succeeded /\ lastCall.given
    /\ \E key \in DOMAIN SectionData \cap DOMAIN PriorEntry :
          /\ PriorEntry[key].t = "map" /\ SectionData[key].t = "map"
          /\ \E k1, k2 \in SubKeys :
                /\ PriorEntry[key].m[k1] # 0 /\ SectionData[key].m[k1] = 0
                /\ PriorEntry[key].m[k2] = 0 /\ SectionData[key].m[k2] # 0
                /\ TargetEntry[key].m[k1] = PriorEntry[key].m[k1]
                /\ TargetEntry[key].m[k2] = SectionData[key].m[k2]

\* C8 as claimed: a successful updateStage leaves the target complete when
\* markComplete is true; with markComplete = false the complete flag of the
\* target keeps the value it had, the current stage is still the target and
\* the sectionData keys are still merged into the entry.
C8_MarkCompleteOnly ==
    Succeeded
        => /\ lastCall.markComplete => Done(file, lastCall.stage)
           /\ CurrentStage(file) = lastCall.stage
           /\ (~lastCall.markComplete /\ "complete" \in DOMAIN PriorEntry)
                 => /\ TargetEntry["complete"] = PriorEntry["complete"]
                    /\ \A key \in DOMAIN SectionData \ {"complete"} :
                          TargetEntry[key] = ExpectedSectionValue(key)

\* C8, amended: with markComplete = false the complete flag keeps its value
\* unless sectionData has the key 'complete', whose value it then takes; an
\* entry the call creates has complete = false unless sectionData sets it.
C8_MarkCompleteOrSectionData ==
    Succeeded
        => /\ lastCall.markComplete => Done(file, lastCall.stage)
           /\ CurrentStage(file) = lastCall.stage
           /\ (~lastCall.markComplete /\ lastCall.given)
                 => /\ TargetEntry["complete"] =
                          IF "complete" \in DOMAIN SectionData THEN SectionData["complete"]
                          ELSE IF "complete" \in DOMAIN PriorEntry THEN PriorEntry["complete"]
                          ELSE VBool(FALSE)
                    /\ \A key \in DOMAIN SectionData \ {"complete"} :
                          TargetEntry[key] = ExpectedSectionValue(key)
           /\ (~lastCall.markComplete /\ ~lastCall.given)
                 => IF lastCall.stage \in DOMAIN ProgressOf(before)
                    THEN TargetEntry = PriorEntry
                    ELSE lastCall.stage \notin DOMAIN ProgressOf(file)

\* A call with markComplete = false and sectionData moved the plan to a
\* stage with an incomplete entry, merged the data and left it incomplete.
C8_Witness ==
    /\ Succeeded /\ ~lastCall.markComplete /\ lastCall.given
    /\ DOMAIN SectionData # {} /\ "complete" \notin DOMAIN SectionData
    /\ CurrentStage(before) # lastCall.stage
    /\ CurrentStage(file) = lastCall.stage
    /\ "complete" \in DOMAIN PriorEntry
    /\ TargetEntry # PriorEntry
    /\ ~Done(before, lastCall.stage) /\ ~Done(file, lastCall.stage)

\* C9: for a well-formed plan, updateStage to a stage outside the seven
\* standard stages succeeds for every force, markComplete and sectionData,
\* whether or not progress has an entry for it, and the current stage is then
\* the target.
C9_CustomStageAlwaysSucceeds ==
    (Called /\ WellFormed(before) /\ lastCall.stage \notin StandardStages)
        => (result.success /\ CurrentStage(file) = lastCall.stage)

\* C10: every updateStage call on a well-formed plan whose target is not a
\* standard stage returns a warning about the custom stage ('Custom stage
\* detected: ...' or 'Cannot validate stage order for custom stage: ...'),
\* whatever force is.
C10_CustomStageWarning ==
    (Called /\ WellFormed(before) /\ lastCall.stage \notin StandardStages)
        => \E i \in 1..Len(result.warnings) :
              /\ result.warnings[i].kind \in {"CustomStageDetected", "CannotValidateOrder"}
              /\ result.warnings[i].to = lastCall.stage

(***************************************************************************)
(* workflows.ts: the workflow manager over .llms/workflows.yml, and the    *)
(* plan generator on top of it                                             *)
(***************************************************************************)
\* A workflows.yml whose content does not parse.
CorruptCatalog == [kind |-> "corrupt"]

CatalogFile(catalog) == [kind |-> "catalog", catalog |-> catalog]

\* A call that threw, and a call that returned a value.
Threw(error) == [ok |-> FALSE, error |-> error]

Returned(value) == [ok |-> TRUE, value |-> value]

loadWorkflows(f) ==
    IF f.kind = "absent" THEN Returned(getDefaultWorkflows)
    ELSE IF f.kind = "corrupt" THEN Threw("ErrorLoadingWorkflows")
    ELSE Returned(f.catalog)

\* createWorkflowsFile without the existence check.
createWorkflowsFile_Overwrite(f, force) ==
    [file |-> CatalogFile(getDefaultWorkflows), reply |-> Returned("void")]

\* fs.access succeeds on an existing file and the call throws unless forced;
\* otherwise the built-in catalog is dumped to the file.
createWorkflowsFile(f, force) ==
    IF f.kind # "absent" /\ ~force
    THEN [file |-> f, reply |-> Threw("AlreadyExists")]
    ELSE [file |-> CatalogFile(getDefaultWorkflows), reply |-> Returned("void")]

\* Array helpers with JavaScript's 0-based indices.
indexOf(steps, x) ==
    IF \E i \in 1..Len(steps) : steps[i] = x
    THEN (CHOOSE i \in 1..Len(steps) :
              steps[i] = x /\ \A j \in 1..(i - 1) : steps[j] # x) - 1
    ELSE -1

At(steps, i) == IF i >= 0 /\ i < Len(steps) THEN steps[i + 1] ELSE "undefined"

slice(steps, from) ==
    IF from >= Len(steps) THEN <<>> ELSE SubSeq(steps, from + 1, Len(steps))

\* The result when currentPhase is not in the workflow, without the null for
\* a workflow of a single step.
StartFromBeginning_NoNull(steps) ==
    [currentStep |-> At(steps, 0),
     nextStep |-> At(steps, 1),
     remainingSteps |-> slice(steps, 1),
     isComplete |-> FALSE]

\* getNextSteps: current phase not in workflow, start from beginning.
StartFromBeginning(steps) ==
    [currentStep |-> At(steps, 0),
     nextStep |-> IF Len(steps) > 1 THEN At(steps, 1) ELSE "null",
     remainingSteps |-> slice(steps, 1),
     isComplete |-> FALSE]

\* remainingSteps that begins at the current step.
RemainingSteps_FromCurrent(steps, currentIndex, completed) ==
    slice(steps, currentIndex)

\* remainingSteps that never skips the step being advanced to.
RemainingSteps_NoAdvance(steps, currentIndex, completed) ==
    slice(steps, currentIndex + 1)

\* getNextSteps: remainingSteps when the current phase is in the workflow.
RemainingSteps(steps, currentIndex, completed) ==
    LET nextIndex == IF completed THEN currentIndex + 1 ELSE currentIndex
    IN  IF completed THEN slice(steps, nextIndex + 1) ELSE slice(steps, currentIndex + 1)

getNextSteps(catalog, workflowType, currentPhase, completed) ==
    LET resolved == resolveWorkflowSteps(catalog, workflowType)
        steps == resolved.steps
        currentIndex == indexOf(steps, currentPhase)
        nextIndex == IF completed THEN currentIndex + 1 ELSE currentIndex
    IN  IF ~resolved.defined
        THEN Threw("TypeError")     \* undefined.indexOf
        ELSE IF currentIndex = -1
        THEN Returned(StartFromBeginning(steps))
        ELSE Returned(
               [currentStep |-> currentPhase,
                nextStep |->
                    IF completed /\ nextIndex < Len(steps) THEN At(steps, nextIndex)
                    ELSE IF ~completed /\ currentIndex < Len(steps) - 1
                    THEN At(steps, currentIndex + 1)
                    ELSE "null",
                remainingSteps |-> RemainingSteps(steps, currentIndex, completed),
                isComplete |-> nextIndex >= Len(steps)])

\* Object.keys(progress) after the loop progress[step] = createStageProgress(step):
\* a key keeps the place of its first assignment.
RECURSIVE ProgressKeys(_)
ProgressKeys(steps) ==
    IF steps = <<>> THEN <<>>
    ELSE LET keys == ProgressKeys(SubSeq(steps, 1, Len(steps) - 1))
             step == steps[Len(steps)]
         IN  IF \E i \in 1..Len(keys) : keys[i] = step THEN keys
             ELSE Append(keys, step)

\* generatePlan on the catalog file f: what it returns (the plan and the
\* order of its progress keys) or throws.
generatePlanFrom(f, taskDescription, taskSlug, options, now) ==
    LET loaded == loadWorkflows(f)
        workflow == IF "workflow" \in DOMAIN options THEN options["workflow"] ELSE "medium"
    IN  IF ~loaded.ok THEN loaded
        ELSE IF ~resolveWorkflowSteps(loaded.value, workflow).defined
        THEN Threw("TypeError")     \* steps[0] of undefined
        ELSE Returned(
               [plan |-> generatePlan(loaded.value, taskDescription, taskSlug, options, now),
                keys |-> ProgressKeys(getWorkflowSteps(loaded.value, workflow))])

(***************************************************************************)
(* Workflow runs: calls on a WorkflowManager and generatePlan while the    *)
(* catalog file is created and rewritten.                                  *)
(***************************************************************************)
\* A workflows.yml with a workflow without steps and one that repeats a step.
RepeatingWorkflows ==
    [ workflows |-> [ empty  |-> <<>>,
                      repeat |-> << "research", "prototype", "research" >> ],
      default |-> << "implementation", "validation" >> ]

\* What a user or a test writes to workflows.yml.
WrittenCatalogFiles ==
    { CatalogFile(CustomWorkflows), CatalogFile(RepeatingWorkflows), CorruptCatalog }

\* Workflow-type names passed by callers: built-in ones, ones of the written
\* catalogs, one no catalog has, and one every object inherits.
WorkflowTypes ==
    { "micro", "small", "epic", "custom", "repeat", "empty", "unknown_workflow",
      "constructor" }

\* Current phases passed to getNextSteps.
Phases == StandardStages \cup { "research", "prototype", "totally_unknown_stage" }

\* Options objects passed to generatePlan.
GenerateOptions ==
    { <<>> }
      \cup { [workflow |-> w] : w \in WorkflowTypes }
      \cup { [workflow |-> w, initialPhase |-> "validation"] : w \in { "micro", "empty" } }
      \cup { [workflow |-> "small", type |-> "subtask", priority |-> "high"],
             [workflow |-> "repeat", status |-> "failed"] }

\* Nothing but workflow-manager calls happens in these runs.
NoPlanFile ==
    /\ file = AbsentFile
    /\ warnings = <<>>
    /\ before = AbsentFile
    /\ lastCall = NoCall
    /\ result = NoResult
    /\ calls = 0
    /\ updaters = NoUpdaters
    /\ subtaskFiles = NoSubtaskFiles

InitWorkflow ==
    /\ workflowsFile = AbsentCatalog
    /\ request = NoRequest
    /\ reply = NoReply
    /\ NoPlanFile

PlanVars == <<file, warnings, before, lastCall, result, calls, updaters, subtaskFiles>>

WriteWorkflowsFile(content) ==
    /\ workflowsFile' = content
    /\ request' = [op |-> "writeFile", workflowsFile |-> workflowsFile]
    /\ reply' = Returned("void")
    /\ UNCHANGED PlanVars

CreateWorkflowsFile(force) ==
    LET out == createWorkflowsFile(workflowsFile, force)
    IN  /\ workflowsFile' = out.file
        /\ request' = [op |-> "createWorkflowsFile", force |-> force,
                       workflowsFile |-> workflowsFile]
        /\ reply' = out.reply
        /\ UNCHANGED PlanVars

GetWorkflowSteps(workflowType) ==
    LET loaded == loadWorkflows(workflowsFile)
    IN  /\ request' = [op |-> "getWorkflowSteps", workflowType |-> workflowType,
                       workflowsFile |-> workflowsFile]
        /\ reply' = IF loaded.ok
                    THEN Returned(resolveWorkflowSteps(loaded.value, workflowType))
                    ELSE loaded
        /\ UNCHANGED <<workflowsFile, file, warnings, before, lastCall, result, calls, updaters, subtaskFiles>>

GetNextSteps(workflowType, currentPhase, completed) ==
    LET loaded == loadWorkflows(workflowsFile)
    IN  /\ request' = [op |-> "getNextSteps", workflowType |-> workflowType,
                       currentPhase |-> currentPhase, completed |-> completed,
                       workflowsFile |-> workflowsFile]
        /\ reply' = IF loaded.ok
                    THEN getNextSteps(loaded.value, workflowType, currentPhase, completed)
                    ELSE loaded
        /\ UNCHANGED <<workflowsFile, file, warnings, before, lastCall, result, calls, updaters, subtaskFiles>>

GeneratePlan(options) ==
    /\ request' = [op |-> "generatePlan", options |-> options,
                   workflowsFile |-> workflowsFile]
    /\ reply' = generatePlanFrom(workflowsFile, "Test Task", "test-task", options, 0)
    /\ UNCHANGED <<workflowsFile, file, warnings, before, lastCall, result, calls, updaters, subtaskFiles>>

NextWorkflow ==
    \/ \E content \in WrittenCatalogFiles : WriteWorkflowsFile(content)
    \/ \E force \in BOOLEAN : CreateWorkflowsFile(force)
    \/ \E workflowType \in WorkflowTypes : GetWorkflowSteps(workflowType)
    \/ \E workflowType \in WorkflowTypes, currentPhase \in Phases, completed \in BOOLEAN :
           GetNextSteps(workflowType, currentPhase, completed)
    \/ \E options \in GenerateOptions : GeneratePlan(options)

SpecWorkflow == InitWorkflow /\ [][NextWorkflow]_vars

(***************************************************************************)
(* Properties of the workflow manager and the plan generator.  They are    *)
(* stated over the last call (request), the catalog file when it was made  *)
(* (request.workflowsFile) and what it returned or threw (reply).          *)
(***************************************************************************)
\* The catalog the call loaded, when loading succeeded.
CatalogLoaded ==
    /\ request.op \in {"getWorkflowSteps", "getNextSteps", "generatePlan"}
    /\ request.workflowsFile.kind # "corrupt"

LoadedCatalog ==
    IF request.workflowsFile.kind = "absent" THEN getDefaultWorkflows
    ELSE request.workflowsFile.catalog

\* The steps a catalog gives a workflow-type name: those of its entry of
\* that name, else those of its default entry.
CatalogSteps(catalog, workflowType) ==
    IF workflowType \in DOMAIN catalog.workflows
    THEN catalog.workflows[workflowType]
    ELSE catalog.default

\* The steps of a sequence after its i-th one (i counted from 1).
StepsAfter(steps, i) ==
    IF i >= Len(steps) THEN <<>> ELSE [j \in 1..(Len(steps) - i) |-> steps[j + i]]

\* The steps getNextSteps worked on: what getWorkflowSteps gave it.
NextStepsCall ==
    /\ request.op = "getNextSteps"
    /\ CatalogLoaded
    /\ resolveWorkflowSteps(LoadedCatalog, request.workflowType).defined

CallSteps == resolveWorkflowSteps(LoadedCatalog, request.workflowType).steps

Occurs(steps, stage) == \E i \in 1..Len(steps) : steps[i] = stage

\* Position (from 1) of the first occurrence of a stage in the steps.
FirstPosition(steps, stage) ==
    CHOOSE i \in 1..Len(steps) :
        steps[i] = stage /\ \A j \in 1..(i - 1) : steps[j] # stage

\* C11: when currentStage occurs in the workflow's steps, at (first) index i,
\* getNextSteps returns currentStep = currentStage, isComplete = (completed
\* and i is the last index), nextStep = the step after i if there is one and
\* null otherwise, and remainingSteps = the steps after the one following i
\* when completed and the steps after i when not completed.
C11_NextStepsInWorkflow ==
    (NextStepsCall /\ Occurs(CallSteps, request.currentPhase)) =>
        LET steps == CallSteps
            i == FirstPosition(steps, request.currentPhase)
        IN  /\ reply.ok
            /\ reply.value.currentStep = request.currentPhase
            /\ reply.value.isComplete = (request.completed /\ i = Len(steps))
            /\ reply.value.nextStep = IF i < Len(steps) THEN steps[i + 1] ELSE "null"
            /\ reply.value.remainingSteps =
                  IF request.completed THEN StepsAfter(steps, i + 1)
                  ELSE StepsAfter(steps, i)

\* A completed middle step of a longer workflow: the next step is skipped in
\* remainingSteps.
C11_Witness ==
    /\ NextStepsCall
    /\ request.workflowType = "small"
    /\ request.currentPhase = "context_gathering"
    /\ request.completed
    /\ reply.ok
    /\ reply.value.nextStep = "implementation"
    /\ reply.value.remainingSteps = << "validation" >>
    /\ ~reply.value.isComplete

\* C12: when currentStage does not occur in the workflow's steps,
\* getNextSteps returns currentStep = steps[0], nextStep = steps[1] if it
\* exists else null, remainingSteps = all steps after the first and
\* isComplete = false, whatever the completed flag.
C12_NextStepsOutsideWorkflow ==
    (NextStepsCall /\ ~Occurs(CallSteps, request.currentPhase)) =>
        LET steps == CallSteps
        IN  /\ reply.ok
            /\ reply.value.currentStep = (IF Len(steps) >= 1 THEN steps[1] ELSE "undefined")
            /\ reply.value.nextStep = (IF Len(steps) >= 2 THEN steps[2] ELSE "null")
            /\ reply.value.remainingSteps = StepsAfter(steps, 1)
            /\ reply.value.isComplete = FALSE

\* An unknown phase given as completed on the single-step workflow.
C12_Witness ==
    /\ NextStepsCall
    /\ request.workflowType = "micro"
    /\ request.workflowsFile.kind = "absent"
    /\ request.currentPhase = "totally_unknown_stage"
    /\ request.completed
    /\ reply.ok
    /\ reply.value.currentStep = "implementation"
    /\ reply.value.nextStep = "null"
    /\ reply.value.remainingSteps = <<>>

\* C13: once the catalog is loaded, getWorkflowSteps fails for no
\* workflow-type name: it returns the steps of the catalog entry of that name
\* when there is one and the steps of the default entry for every other name.
C13_WorkflowStepsOrDefault ==
    (request.op = "getWorkflowSteps" /\ CatalogLoaded) =>
        /\ reply.ok
        /\ reply.value.defined
        /\ reply.value.steps = CatalogSteps(LoadedCatalog, request.workflowType)

\* C14: createWorkflowsFile(force) fails with 'already exists' and leaves the
\* file as it was when the file exists and force is false; when the file is
\* absent or force is true the file afterwards holds the built-in catalog.
C14_CreateWorkflowsFile ==
    request.op = "createWorkflowsFile" =>
        IF request.workflowsFile.kind # "absent" /\ ~request.force
        THEN /\ reply = Threw("AlreadyExists")
             /\ workflowsFile = request.workflowsFile
        ELSE /\ reply.ok
             /\ workflowsFile = CatalogFile(getDefaultWorkflows)

\* An unforced call on a catalog a user wrote: refused, file kept.
C14_Witness ==
    /\ request.op = "createWorkflowsFile"
    /\ ~request.force
    /\ request.workflowsFile = CatalogFile(CustomWorkflows)
    /\ reply = Threw("AlreadyExists")
    /\ workflowsFile = CatalogFile(CustomWorkflows)

\* The steps with every repetition of an earlier step left out.
FirstOccurrences(steps) ==
    LET firsts == { i \in 1..Len(steps) : \A j \in 1..(i - 1) : steps[j] # steps[i] }
        rank(i) == Cardinality({ j \in firsts : j <= i })
    IN  [k \in 1..Cardinality(firsts) |-> steps[CHOOSE i \in firsts : rank(i) = k]]

\* C15: generatePlan builds a progress map whose keys are exactly the steps
\* resolved for the workflow type (duplicates collapsed, in first-occurrence
\* order), every entry being the registry's empty shape of its stage with
\* complete = false, and the current stage is options.initialPhase if given,
\* else the first step, else 'scope_analysis'; under the built-in catalog
\* 'micro' gives the single key 'implementation' with current stage
\* 'implementation' and 'epic' gives the seven standard stages in canonical
\* order with current stage 'scope_analysis'.
C15_GeneratePlanFollowsWorkflow ==
    (request.op = "generatePlan" /\ CatalogLoaded) =>
        LET options == request.options
            workflow == IF "workflow" \in DOMAIN options THEN options["workflow"]
                        ELSE "medium"
            steps == CatalogSteps(LoadedCatalog, workflow)
        IN  /\ reply.ok
            /\ reply.value.keys = FirstOccurrences(steps)
            /\ DOMAIN reply.value.plan.progress = { steps[i] : i \in 1..Len(steps) }
            /\ \A stage \in DOMAIN reply.value.plan.progress :
                 /\ reply.value.plan.progress[stage] = createStageProgress(stage)
                 /\ reply.value.plan.progress[stage]["complete"] = VBool(FALSE)
            /\ reply.value.plan.phase =
                 (IF "initialPhase" \in DOMAIN options THEN options["initialPhase"]
                  ELSE IF Len(steps) >= 1 THEN steps[1]
                  ELSE "scope_analysis")
            /\ (request.workflowsFile.kind = "absent" /\ options = [workflow |-> "micro"]) =>
                 /\ reply.value.keys = << "implementation" >>
                 /\ reply.value.plan.phase = "implementation"
            /\ (request.workflowsFile.kind = "absent" /\ options = [workflow |-> "epic"]) =>
                 /\ reply.value.keys = VALID_STAGES
                 /\ reply.value.plan.phase = "scope_analysis"

(***************************************************************************)
(* index.ts: the checklist editor (update_checklist_item and               *)
(* add_checklist_item).  A text that the code inspects is a sequence of    *)
(* characters; a checklist item is a record of its task text and its       *)
(* complete flag, and a checklist is VArr of a sequence of items.          *)
(***************************************************************************)
\* String.prototype.toLowerCase, character by character.
LowerOf(c) ==
    CASE c = "A" -> "a"
      [] c = "B" -> "b"
      [] c = "C" -> "c"
      [] c = "Z" -> "z"
      [] OTHER -> c

toLowerCase(str) == [i \in 1..Len(str) |-> LowerOf(str[i])]

\* String.prototype.includes: pattern occurs in str as a contiguous run.
includes(str, pattern) ==
    \E offset \in 0..(Len(str) - Len(pattern)) :
        \A i \in 1..Len(pattern) : str[offset + i] = pattern[i]

\* JavaScript truthiness of a field value of an entry ("undefined" when the
\* entry has no such field).
Truthy(entry, key) ==
    /\ key \in DOMAIN entry
    /\ CASE entry[key].t = "null" -> FALSE
         [] entry[key].t = "bool" -> entry[key].b
         [] entry[key].t = "str"  -> entry[key].s # ""
         [] OTHER -> TRUE

isArray(entry, key) == key \in DOMAIN entry /\ entry[key].t = "arr"

\* A tool call that answers with an error text without throwing.
Refused(message) == [ok |-> FALSE, error |-> message]

\* A filter that lets every item with a task text through.
Matches_AnyTask(item, taskPattern) == item.task # <<>>

\* item.task && item.task.toLowerCase().includes(taskPattern.toLowerCase())
Matches(item, taskPattern) ==
    /\ item.task # <<>>
    /\ includes(toLowerCase(item.task), toLowerCase(taskPattern))

\* The map callback that leaves the task text alone.
UpdateItem_KeepText(item, taskPattern, complete, args) ==
    IF Matches(item, taskPattern) THEN [item EXCEPT !.complete = complete] ELSE item

\* The map callback of updateChecklistItem.
UpdateItem(item, taskPattern, complete, args) ==
    IF Matches(item, taskPattern)
    THEN IF "newTask" \in DOMAIN args /\ args["newTask"] # <<>>
         THEN [task |-> args["newTask"], complete |-> complete]
         ELSE [item EXCEPT !.complete = complete]
    ELSE item

\* A write that also marks the plan completed.
WritePlan_MarkCompleted(plan) == PlanFile(Put(plan, "status", "completed"))

\* The file with the plan dumped to it.
WritePlan(plan) == PlanFile(plan)

\* updateChecklistItem(args) on the plan file f at time now: the file
\* afterwards and the answer.
updateChecklistItem(f, args, now) ==
    LET stage == args["stage"]
        taskPattern == args["taskPattern"]
        complete == IF "complete" \in DOMAIN args THEN args["complete"] ELSE TRUE
    IN  IF f.kind = "absent" THEN [file |-> f, reply |-> Threw("PlanNotFound")]
        ELSE IF f.kind = "corrupt" \/ "progress" \notin DOMAIN f.plan
        THEN [file |-> f, reply |-> Threw("InternalError")]
        ELSE IF stage \notin DOMAIN f.plan["progress"]
        THEN [file |-> f, reply |-> Refused("StageNotFound")]
        ELSE LET stageProgress == f.plan["progress"][stage]
             IN  IF ~Truthy(stageProgress, "checklist") \/ ~isArray(stageProgress, "checklist")
                 THEN [file |-> f, reply |-> Refused("NoChecklist")]
                 ELSE LET checklist == stageProgress["checklist"].a
                          matchingItems ==
                              { i \in 1..Len(checklist) : Matches(checklist[i], taskPattern) }
                          updated ==
                              [i \in 1..Len(checklist) |->
                                  UpdateItem(checklist[i], taskPattern, complete, args)]
                          plan == Put([f.plan EXCEPT
                                          !["progress"][stage]["checklist"] = VArr(updated)],
                                      "updated", now)
                      IN  IF matchingItems = {}
                          THEN [file |-> f, reply |-> Refused("NoMatch")]
                          ELSE [file |-> WritePlan(plan),
                                reply |-> Returned([updatedCount |-> Cardinality(matchingItems)])]

\* Array.prototype.splice(insertAt, 0, newItem) for insertAt >= 0.
splice(checklist, insertAt, newItem) ==
    LET at == IF insertAt > Len(checklist) THEN Len(checklist) ELSE insertAt
    IN  SubSeq(checklist, 1, at) \o << newItem >> \o SubSeq(checklist, at + 1, Len(checklist))

\* The insertion that always appends.
InsertItem_Append(checklist, args, newItem) == Append(checklist, newItem)

\* addChecklistItem: add item at specified position or end.
InsertItem(checklist, args, newItem) ==
    IF "insertAt" \in DOMAIN args /\ args["insertAt"] >= 0
    THEN splice(checklist, args["insertAt"], newItem)
    ELSE Append(checklist, newItem)

\* addChecklistItem(args) on the plan file f at time now.
addChecklistItem(f, args, now) ==
    LET stage == args["stage"]
        complete == IF "complete" \in DOMAIN args THEN args["complete"] ELSE FALSE
        newItem == [task |-> args["task"], complete |-> complete]
    IN  IF f.kind = "absent" THEN [file |-> f, reply |-> Threw("PlanNotFound")]
        ELSE IF f.kind = "corrupt" \/ "progress" \notin DOMAIN f.plan
        THEN [file |-> f, reply |-> Threw("InternalError")]
        ELSE IF stage \notin DOMAIN f.plan["progress"]
        THEN [file |-> f, reply |-> Refused("StageNotFound")]
        ELSE LET stageProgress == f.plan["progress"][stage]
                 checklist == IF ~Truthy(stageProgress, "checklist") THEN <<>>
                              ELSE stageProgress["checklist"].a
                 entry == Put(stageProgress, "checklist",
                              VArr(InsertItem(checklist, args, newItem)))
                 plan == Put([f.plan EXCEPT
                                 !["progress"] = Put(f.plan["progress"], stage, entry)],
                             "updated", now)
             IN  IF ~IsObject(stageProgress)
                 THEN [file |-> f, reply |-> Threw("InternalError")]   \* property set on a string
                 ELSE IF Truthy(stageProgress, "checklist") /\ ~isArray(stageProgress, "checklist")
                 THEN [file |-> f, reply |-> Refused("ChecklistNotArray")]
                 ELSE [file |-> WritePlan(plan), reply |-> Returned("added")]

(***************************************************************************)
(* Checklist runs: checklist edits of a medium plan whose solution_design  *)
(* checklist was left empty, filled, or overwritten with something else.   *)
(***************************************************************************)
\* Number of checklist edits explored from each initial plan file.
MaxEdits == 2

\* Task texts "Ab", "aBc" and "c", and the checklist holding them.
TaskAb == << "A", "b" >>

TaskaBc == << "a", "B", "c" >>

Taskc == << "c" >>

FilledChecklist ==
    << [task |-> TaskAb, complete |-> FALSE],
       [task |-> TaskaBc, complete |-> TRUE],
       [task |-> Taskc, complete |-> FALSE] >>

MediumPlan ==
    generatePlan(getDefaultWorkflows, "Test Checklist", "test-checklist",
                 [workflow |-> "medium"], 0)

\* The medium plan with progress.solution_design.checklist set to a value.
WithChecklist(value) ==
    [MediumPlan EXCEPT !.progress["solution_design"]["checklist"] = value]

ChecklistFiles ==
    { AbsentFile, PlanFile(IncompletePlan), PlanFile(MediumPlan),
      PlanFile(WithChecklist(VArr(FilledChecklist))),
      PlanFile(WithChecklist(VMap(EmptyMap))),
      PlanFile(WithChecklist(VStr("todo"))),
      PlanFile(WithChecklist(VNull)),
      PlanFile(WithChecklist(VBool(FALSE))) }

\* Stages named by the calls: one with a checklist field, one without, and
\* one the plan has no entry for.
ChecklistStages == { "solution_design", "implementation", "knowledge_capture" }

\* Patterns: "aB" (two items), "C" (two items), "z" (none), "" (every item).
TaskPatterns == { << "a", "B" >>, << "C" >>, << "z" >>, <<>> }

UpdateItemArgs ==
    { [stage |-> st, taskPattern |-> pat] @@ c @@ n :
        st \in ChecklistStages, pat \in TaskPatterns,
        c \in { <<>>, [complete |-> FALSE] },
        n \in { <<>>, [newTask |-> << "Z" >>] } }

AddItemArgs ==
    { [stage |-> st, task |-> << "a", "b" >>] @@ c @@ at :
        st \in ChecklistStages,
        c \in { <<>>, [complete |-> TRUE] },
        at \in { <<>> } \cup { [insertAt |-> n] : n \in { -1, 0, 1, 9 } } }

InitChecklist ==
    /\ file \in ChecklistFiles
    /\ before = file
    /\ calls = 0
    /\ warnings = <<>>
    /\ lastCall = NoCall
    /\ result = NoResult
    /\ workflowsFile = AbsentCatalog
    /\ request = NoRequest
    /\ reply = NoReply
    /\ updaters = NoUpdaters
    /\ subtaskFiles = NoSubtaskFiles

UpdateChecklistItem(args) ==
    /\ calls < MaxEdits
    /\ LET out == updateChecklistItem(file, args, calls + 1)
       IN  /\ file' = out.file
           /\ reply' = out.reply
    /\ request' = [op |-> "updateChecklistItem", args |-> args]
    /\ before' = file
    /\ calls' = calls + 1
    /\ UNCHANGED <<warnings, lastCall, result, workflowsFile, updaters, subtaskFiles>>

AddChecklistItem(args) ==
    /\ calls < MaxEdits
    /\ LET out == addChecklistItem(file, args, calls + 1)
       IN  /\ file' = out.file
           /\ reply' = out.reply
    /\ request' = [op |-> "addChecklistItem", args |-> args]
    /\ before' = file
    /\ calls' = calls + 1
    /\ UNCHANGED <<warnings, lastCall, result, workflowsFile, updaters, subtaskFiles>>

NextChecklist ==
    \/ \E args \in UpdateItemArgs : UpdateChecklistItem(args)
    \/ \E args \in AddItemArgs : AddChecklistItem(args)

SpecChecklist == InitChecklist /\ [][NextChecklist]_vars

(***************************************************************************)
(* Properties of the checklist editor, over the last edit (request), the   *)
(* plan file when it began (before), the plan file afterwards (file) and   *)
(* the answer (reply).                                                     *)
(***************************************************************************)
\* The last call was the given checklist operation on a stored plan.
EditOf(op) == request.op = op /\ before.kind = "plan"

EditStage == request.args["stage"]

\* The stage named by the edit had an entry in progress when the edit began.
StageWasPresent ==
    /\ "progress" \in DOMAIN before.plan
    /\ EditStage \in DOMAIN before.plan["progress"]

EntryBefore == before.plan["progress"][EditStage]

EntryAfter == file.plan["progress"][EditStage]

HadChecklistField == "checklist" \in DOMAIN EntryBefore

WasSequence == HadChecklistField /\ EntryBefore["checklist"].t = "arr"

ItemsBefore == EntryBefore["checklist"].a

ItemsAfter == EntryAfter["checklist"].a

\* task contains pattern, letter case ignored.
ContainsIgnoringCase(task, pattern) ==
    \E offset \in 0..(Len(task) - Len(pattern)) :
        \A i \in 1..Len(pattern) : LowerOf(task[offset + i]) = LowerOf(pattern[i])

MatchingPositions ==
    { i \in 1..Len(ItemsBefore) :
        ContainsIgnoringCase(ItemsBefore[i].task, request.args["taskPattern"]) }

GivenComplete(default) ==
    IF "complete" \in DOMAIN request.args THEN request.args["complete"] ELSE default

C17_UpdateFailuresWriteNothing ==
    (EditOf("updateChecklistItem")
        /\ (~StageWasPresent \/ ~WasSequence \/ MatchingPositions = {})) =>
        /\ ~reply.ok
        /\ file = before

\* A pattern that matches none of the three stored items.
C17_Witness ==
    /\ EditOf("updateChecklistItem")
    /\ StageWasPresent /\ WasSequence
    /\ ItemsBefore = FilledChecklist
    /\ MatchingPositions = {}
    /\ reply = Refused("NoMatch")
    /\ file = before

NewItem == [task |-> request.args["task"], complete |-> GivenComplete(FALSE)]

\* Where the new item goes in a list of n items (positions from 0).
InsertPosition(n) ==
    IF "insertAt" \in DOMAIN request.args
         /\ request.args["insertAt"] >= 0 /\ request.args["insertAt"] <= n
    THEN request.args["insertAt"]
    ELSE n

\* The list after the edit is the list before it with the new item put in.
GrownByNewItem(old, new) ==
    LET p == InsertPosition(Len(old))
    IN  /\ Len(new) = Len(old) + 1
        /\ new[p + 1] = NewItem
        /\ \A i \in 1..Len(old) : new[IF i <= p THEN i ELSE i + 1] = old[i]

AddSucceeded == reply.ok /\ file.kind = "plan" /\ EntryAfter["checklist"].t = "arr"

AddFailed == ~reply.ok /\ file = before

\* C18 as stated: addChecklistItem on an existing stage without a checklist
\* field leaves a checklist of exactly the new item; with a checklist it adds
\* exactly one item {task, complete}, at insertAt when that is given and
\* within 0..length and at the end otherwise, the earlier items keeping their
\* order; it fails without writing when the stage is absent from progress or
\* the existing checklist field is not a sequence.
C18_AddChecklistItem ==
    EditOf("addChecklistItem") =>
        IF ~StageWasPresent THEN AddFailed
        ELSE IF ~HadChecklistField THEN AddSucceeded /\ ItemsAfter = << NewItem >>
        ELSE IF ~WasSequence THEN AddFailed
        ELSE AddSucceeded /\ GrownByNewItem(ItemsBefore, ItemsAfter)

\* The checklist field holds null, false, 0 or the empty string.
WasFalsy ==
    /\ HadChecklistField
    /\ \/ EntryBefore["checklist"].t = "null"
       \/ EntryBefore["checklist"].t = "bool" /\ ~EntryBefore["checklist"].b
       \/ EntryBefore["checklist"].t = "str" /\ EntryBefore["checklist"].s = ""

\* C18, amended: as stated, except that an existing checklist field holding
\* null, false, 0 or the empty string counts as no checklist field: the call
\* succeeds and leaves a checklist of exactly the new item.  It fails without
\* writing only for the other values that are no sequence.
C18_AddChecklistItemFalsyIsMissing ==
    EditOf("addChecklistItem") =>
        IF ~StageWasPresent THEN AddFailed
        ELSE IF ~HadChecklistField \/ WasFalsy
        THEN AddSucceeded /\ ItemsAfter = << NewItem >>
        ELSE IF ~WasSequence THEN AddFailed
        ELSE AddSucceeded /\ GrownByNewItem(ItemsBefore, ItemsAfter)

\* An item inserted at index 1 of the three stored items.
C18_Witness ==
    /\ EditOf("addChecklistItem")
    /\ StageWasPresent /\ WasSequence
    /\ ItemsBefore = FilledChecklist
    /\ "insertAt" \in DOMAIN request.args /\ request.args["insertAt"] = 1
    /\ reply.ok
    /\ ItemsAfter = << FilledChecklist[1], NewItem, FilledChecklist[2], FilledChecklist[3] >>

(***************************************************************************)
(* Concurrent updates: two PlanUpdater instances on the same plan file     *)
(* whose updateStage calls are in flight together (edge-case test          *)
(* 'PlanUpdater handles concurrent modification').  A call gives up the    *)
(* processor at its file operations: the readFile of loadPlan and, in the  *)
(* writeFile of savePlan, the opening of the file (which truncates it) and *)
(* the writing of the dumped plan.  Everything between is computed on the  *)
(* updater's own this.plan.                                                *)
(***************************************************************************)
\* updater1 and updater2 of the test.
Updaters == {1, 2}

\* The file after two writers wrote over each other's bytes: the later,
\* shorter document followed by the tail of the earlier one.
TornFile == [kind |-> "torn", plan |-> <<>>]

\* An updater that was constructed and not yet called.
IdleUpdater ==
    [pc |-> "idle", stage |-> "", opts |-> WithDefaults(<<>>), snapshot |-> AbsentFile,
     now |-> 0, pending |-> AbsentFile, result |-> NoResult, overwrote |-> FALSE,
     last |-> FALSE]

\* Stages and options of the concurrent calls.
ConcurrentTargets == { "context_gathering", "implementation" }

ConcurrentOptions ==
    { <<>>,
      [force |-> TRUE],
      [sectionData |-> [findings |-> VMap([EmptyMap EXCEPT !["a"] = 1])]],
      [force |-> TRUE, sectionData |-> [changes |-> VArr(<<1>>)]],
      [markComplete |-> FALSE, sectionData |-> [findings |-> VMap([EmptyMap EXCEPT !["b"] = 2])]] }

InitConcurrent ==
    /\ file = PlanFile(generatePlan(getDefaultWorkflows, "Test Concurrent",
                                    "test-concurrent", [workflow |-> "small"], 0))
    /\ before = file
    /\ calls = 0
    /\ updaters = [u \in Updaters |-> IdleUpdater]
    /\ subtaskFiles = NoSubtaskFiles
    /\ warnings = <<>>
    /\ lastCall = NoCall
    /\ result = NoResult
    /\ workflowsFile = AbsentCatalog
    /\ request = NoRequest
    /\ reply = NoReply

OtherVars == <<warnings, before, lastCall, result, workflowsFile, request, reply, subtaskFiles>>

\* updater.updateStage(targetStage, options) is called: loadPlan starts.
StartUpdate(u, targetStage, options) ==
    /\ updaters[u].pc = "idle"
    /\ updaters' = [updaters EXCEPT ![u] =
                       [@ EXCEPT !.pc = "reading", !.stage = targetStage,
                                 !.opts = WithDefaults(options)]]
    /\ UNCHANGED <<file, calls>>
    /\ UNCHANGED OtherVars

\* loadPlan: the content readFile hands over.
ReadSnapshot(f) == f

\* readFile completes; validateStage, updatePlanStructure and the validation
\* and dump of savePlan follow on the snapshot.  A throw ends the call.
ReadAndCompute(u) ==
    /\ updaters[u].pc = "reading"
    /\ LET snapshot == ReadSnapshot(file)
           out == updateStage(snapshot, updaters[u].stage, updaters[u].opts, <<>>, calls + 1)
       IN  updaters' = [updaters EXCEPT ![u] =
                           [@ EXCEPT !.pc = IF out.result.success THEN "computed" ELSE "done",
                                     !.snapshot = snapshot,
                                     !.now = calls + 1,
                                     !.pending = out.file,
                                     !.result = out.result]]
    /\ calls' = calls + 1
    /\ UNCHANGED file
    /\ UNCHANGED OtherVars

\* writeFile opens the plan file for writing, which empties it.
OpenForWrite(u) ==
    /\ updaters[u].pc = "computed"
    /\ file' = CorruptFile
    /\ updaters' = [updaters EXCEPT ![u] = [@ EXCEPT !.pc = "opened"]]
    /\ UNCHANGED calls
    /\ UNCHANGED OtherVars

\* A write that leaves a document already in the file in place.
WriteOutcomes_FirstWins(current, pending) ==
    IF current.kind = "plan" THEN { current } ELSE { pending }

\* The contents a write of the document pending (from offset 0) can leave in
\* a file holding current: the document itself when the file is empty or
\* not longer than it, and a torn file when it held a longer document.  The
\* lengths of the dumps are not modelled: either outcome is possible when the
\* file holds a different document.
WriteOutcomes(current, pending) ==
    IF current.kind = "plan" /\ current # pending
    THEN { pending, TornFile }
    ELSE { pending }

\* writeFile writes the dumped plan and the call returns its result.
WriteContent(u) ==
    /\ updaters[u].pc = "opened"
    /\ file' \in WriteOutcomes(file, updaters[u].pending)
    /\ updaters' = [v \in Updaters |->
                       IF v = u
                       THEN [updaters[v] EXCEPT !.pc = "done", !.last = TRUE,
                                                !.overwrote = (file.kind = "plan")]
                       ELSE [updaters[v] EXCEPT !.last = FALSE]]
    /\ UNCHANGED calls
    /\ UNCHANGED OtherVars

NextConcurrent ==
    \/ \E u \in Updaters, targetStage \in ConcurrentTargets, options \in ConcurrentOptions :
           StartUpdate(u, targetStage, options)
    \/ \E u \in Updaters : ReadAndCompute(u)
    \/ \E u \in Updaters : OpenForWrite(u)
    \/ \E u \in Updaters : WriteContent(u)

SpecConcurrent == InitConcurrent /\ [][NextConcurrent]_vars

(***************************************************************************)
(* Properties of concurrent updates                                        *)
(***************************************************************************)
BothFinished == \A u \in Updaters : updaters[u].pc = "done"

\* The updater whose write was the last one, if any wrote.
LastWriters == { u \in Updaters : updaters[u].last }

\* Every finished call decided and computed on the snapshot it read.
ComputedFromSnapshot ==
    \A u \in Updaters :
        updaters[u].pc \in {"computed", "opened", "done"} =>
            LET out == updateStage(updaters[u].snapshot, updaters[u].stage,
                                   updaters[u].opts, <<>>, updaters[u].now)
            IN  /\ updaters[u].result = out.result
                /\ updaters[u].result.success => updaters[u].pending = out.file

\* C19 as stated: two concurrent updateStage calls on one plan file are not
\* isolated: each decides and computes its result from the snapshot it read,
\* and the stored record after both finish is the complete record written by
\* whichever write happened last.
C19_LastWriteWins ==
    /\ ComputedFromSnapshot
    /\ BothFinished =>
         \A u \in LastWriters : file = updaters[u].pending

\* C19, amended: each call decides and computes from the snapshot it read,
\* and the stored record after both finish is the complete record of the
\* last write, or, when that write landed on a record the other call wrote
\* after the file was opened, possibly a torn mixture of the two that is no
\* complete record.
C19_LastWriteWinsOrTorn ==
    /\ ComputedFromSnapshot
    /\ BothFinished =>
         \A u \in LastWriters :
            \/ file = updaters[u].pending
            \/ file = TornFile /\ updaters[u].overwrote

\* The lost update: both calls returned success, the file holds the complete
\* record of updater 1, and neither the changes updater 2 stored under
\* implementation nor its completion mark of that stage are in it.
C19_Witness ==
    /\ BothFinished
    /\ updaters[1].result.success /\ updaters[2].result.success
    /\ updaters[1].last
    /\ file = updaters[1].pending
    /\ updaters[1].stage = "context_gathering"
    /\ updaters[2].stage = "implementation"
    /\ updaters[2].opts = WithDefaults([force |-> TRUE,
                                        sectionData |-> [changes |-> VArr(<<1>>)]])
    /\ updaters[2].pending.plan.progress["implementation"]["changes"] = VArr(<<1>>)
    /\ updaters[2].pending.plan.progress["implementation"]["complete"] = VBool(TRUE)
    /\ file.plan.progress["implementation"]["changes"] = VArr(<<>>)
    /\ file.plan.progress["implementation"]["complete"] = VBool(FALSE)

(***************************************************************************)
(* plan-template.ts: generateSlug.  A text is a sequence of characters.    *)
(***************************************************************************)
\* The length the slug is cut to: slice(0, 50).
SlugLimit == 50

\* The character classes of the regular expressions: \w, \s and the hyphen.
IsWord(c) == c \in { "a", "b", "c", "z", "A", "B", "C", "Z", "1", "_" }

IsSpace(c) == c = " "

\* .replace(/[^\w\s-]/g, '')
StripSymbols(str) == SelectSeq(str, LAMBDA c : IsWord(c) \/ IsSpace(c) \/ c = "-")

\* .replace(/\s+/g, '-'): every run of whitespace becomes one hyphen.
SpacesToHyphen(str) ==
    LET kept == SelectSeq([i \in 1..Len(str) |-> i],
                          LAMBDA i : ~IsSpace(str[i]) \/ i = 1 \/ ~IsSpace(str[i - 1]))
    IN  [k \in 1..Len(kept) |-> IF IsSpace(str[kept[k]]) THEN "-" ELSE str[kept[k]]]

\* .replace(/-+/g, '-'): every run of hyphens becomes one hyphen.
CollapseHyphens(str) ==
    LET kept == SelectSeq([i \in 1..Len(str) |-> i],
                          LAMBDA i : str[i] # "-" \/ i = 1 \/ str[i - 1] # "-")
    IN  [k \in 1..Len(kept) |-> str[kept[k]]]

\* .replace(/^-+|-+$/g, '')
TrimHyphens(str) ==
    LET inner == { i \in 1..Len(str) : str[i] # "-" }
    IN  IF inner = {} THEN <<>>
        ELSE SubSeq(str, CHOOSE i \in inner : \A j \in inner : i <= j,
                         CHOOSE i \in inner : \A j \in inner : i >= j)

\* A cut one character too late.
Truncate_OffByOne(str) ==
    IF Len(str) > SlugLimit + 1 THEN SubSeq(str, 1, SlugLimit + 1) ELSE str

\* .slice(0, 50)
Truncate(str) == IF Len(str) > SlugLimit THEN SubSeq(str, 1, SlugLimit) ELSE str

generateSlug(description) ==
    Truncate(TrimHyphens(CollapseHyphens(SpacesToHyphen(StripSymbols(
        toLowerCase(description))))))

(***************************************************************************)
(* Slug runs: generateSlug applied to descriptions made of a few runs of   *)
(* one character each, short ones and ones near the length limit.          *)
(***************************************************************************)
\* Number of runs a description is made of, at most.
MaxRuns == 3

\* Characters of the descriptions: letters of both cases, a digit, the
\* underscore, the hyphen, the space and a symbol.
DescriptionChars == { "a", "A", "1", "_", "-", " ", "!" }

\* Lengths of the runs.
RunLengths == { 1, SlugLimit - 1 }

Runs == DescriptionChars \X RunLengths

RECURSIVE TextOf(_)
TextOf(runs) ==
    IF runs = <<>> THEN <<>>
    ELSE [i \in 1..runs[1][2] |-> runs[1][1]] \o TextOf(Tail(runs))

Descriptions ==
    { TextOf(runs) : runs \in UNION { [1..n -> Runs] : n \in 0..MaxRuns } }

InitSlug ==
    /\ request \in { [op |-> "describe", description |-> d] : d \in Descriptions }
    /\ reply = NoReply
    /\ workflowsFile = AbsentCatalog
    /\ NoPlanFile

GenerateSlug ==
    /\ request.op = "describe"
    /\ request' = [op |-> "generateSlug", description |-> request.description]
    /\ reply' = Returned(generateSlug(request.description))
    /\ UNCHANGED <<workflowsFile, file, warnings, before, lastCall, result, calls, updaters, subtaskFiles>>

NextSlug == GenerateSlug

SpecSlug == InitSlug /\ [][NextSlug]_vars

(***************************************************************************)
(* Properties of generateSlug                                              *)
(***************************************************************************)
Slugged == request.op = "generateSlug"

\* The characters of [a-z0-9] among those of the model.
LowerAlphanumerics == { "a", "b", "c", "z", "1" }

Alphanumerics == LowerAlphanumerics \cup { "A", "B", "C", "Z" }

OnlyChars(str, chars) == \A i \in 1..Len(str) : str[i] \in chars

C21_NoStrayHyphens ==
    Slugged =>
        /\ reply.value # <<>> =>
            /\ reply.value[1] # "-"
            /\ reply.value[Len(reply.value)] # "-"
        /\ \A i \in 1..(Len(reply.value) - 1) :
            ~(reply.value[i] = "-" /\ reply.value[i + 1] = "-")

(***************************************************************************)
(* The plan server of src/src/index.ts: create_plan, create_subtask_plan,  *)
(* promote_subtask and update_plan on the main plan file                   *)
(* .llms/.dev-plan-main.yaml and the subtask plan files of                 *)
(* .llms/.dev-plan-main/subtasks.  Descriptions and slugs are sequences of *)
(* characters; a path is the sequence of its parts.                        *)
(***************************************************************************)
\* Number of tool calls explored from each initial store.
MaxToolCalls == 3

mainPlanFile == << ".llms", ".dev-plan-main.yaml" >>

\* path.join(subtasksDir, `.dev-plan-${subtaskSlug}.yaml`)
subtaskPlanFile(subtaskSlug) ==
    << ".llms", ".dev-plan-main", "subtasks", ".dev-plan-", subtaskSlug, ".yaml" >>

\* fs.access(path) succeeds
Exists(f) == f.kind # "absent"

\* The subtask plan file of a slug.
SubtaskFile(files, subtaskSlug) ==
    IF subtaskSlug \in DOMAIN files THEN files[subtaskSlug] ELSE AbsentFile

\* The options object a handler builds from its arguments: an argument that
\* was not passed is undefined there, which generatePlan treats as absent.
Passed(args, names) == [name \in names \cap DOMAIN args |-> args[name]]

\* What a tool call leaves behind and answers.
Outcome(f, files, answer) == [file |-> f, subtaskFiles |-> files, reply |-> answer]

\* A createPlan that does not look for an existing main plan file.
createPlan_Overwrite(f, files, catalogFile, args, now) ==
    LET taskSlug == generateSlug(args.taskDescription)
        generated == generatePlanFrom(catalogFile, args.taskDescription, taskSlug,
                         Passed(args, {"workflow", "priority", "status"}), now)
    IN  IF ~generated.ok THEN Outcome(f, files, generated)
        ELSE Outcome(PlanFile(generated.value.plan), files, Returned("MainPlanCreated"))

\* createPlan
createPlan(f, files, catalogFile, args, now) ==
    IF Exists(f) THEN Outcome(f, files, Returned("MainPlanAlreadyExists"))
    ELSE LET taskSlug == generateSlug(args.taskDescription)
             generated == generatePlanFrom(catalogFile, args.taskDescription, taskSlug,
                              Passed(args, {"workflow", "priority", "status"}), now)
         IN  IF ~generated.ok THEN Outcome(f, files, generated)
             ELSE Outcome(PlanFile(generated.value.plan), files, Returned("MainPlanCreated"))

\* The subtask plan of both create_subtask_plan and promote_subtask: the
\* generated plan with its parent reference added.
WithParent(subtaskPlan, mainPlan) ==
    Put(Put(Put(subtaskPlan,
        "parent_plan", [file |-> mainPlanFile, task |-> mainPlan.task, slug |-> mainPlan.slug]),
        "type", "subtask"),
        "parent_task", mainPlan.task)

\* mainPlan.sub_tasks.push(reference)
PushReference(sub_tasks, reference) == Append(sub_tasks, reference)

\* createSubtaskPlan
createSubtaskPlan(f, files, catalogFile, args, now) ==
    IF ~Exists(f) THEN Outcome(f, files, Returned("MainPlanNotFound"))
    ELSE LET mainPlan == f.plan
             subtaskSlug == generateSlug(args.subtaskDescription)
             generated == generatePlanFrom(catalogFile, args.subtaskDescription, subtaskSlug,
                              Passed(args, {"workflow", "priority", "status"})
                                  @@ [type |-> "subtask"], now)
             reference ==
                 [ description |-> args.subtaskDescription,
                   slug        |-> subtaskSlug,
                   priority    |-> IF "priority" \in DOMAIN args THEN args.priority
                                   ELSE "medium",
                   status      |-> "independent",
                   type        |-> "independent_plan",
                   plan_file   |-> subtaskPlanFile(subtaskSlug),
                   created     |-> now ]
             sub_tasks == IF "sub_tasks" \in DOMAIN mainPlan THEN mainPlan.sub_tasks ELSE <<>>
         IN  IF Exists(SubtaskFile(files, subtaskSlug))
             THEN Outcome(f, files, Returned("SubtaskPlanAlreadyExists"))
             ELSE IF ~generated.ok THEN Outcome(f, files, generated)
             ELSE Outcome(
                    PlanFile(Put(Put(mainPlan, "sub_tasks", PushReference(sub_tasks, reference)),
                                 "updated", now)),
                    Put(files, subtaskSlug, PlanFile(WithParent(generated.value.plan, mainPlan))),
                    Returned("SubtaskPlanCreated"))

\* mainPlan.sub_tasks?.find(st => st.slug === subtaskSlug): the position of
\* the first reference with that slug, 0 when there is none.
find(mainPlan, subtaskSlug) ==
    IF "sub_tasks" \notin DOMAIN mainPlan THEN 0
    ELSE LET found == { i \in 1..Len(mainPlan.sub_tasks) :
                          /\ "slug" \in DOMAIN mainPlan.sub_tasks[i]
                          /\ mainPlan.sub_tasks[i].slug = subtaskSlug }
         IN  IF found = {} THEN 0 ELSE CHOOSE i \in found : \A j \in found : i <= j

\* The found reference after promoteSubtask has assigned to it.
Promoted(subtask, subtaskSlug) ==
    Put(Put(Put(subtask, "type", "independent_plan"),
        "plan_file", subtaskPlanFile(subtaskSlug)),
        "status", "promoted")

\* promoteSubtask
promoteSubtask(f, files, catalogFile, args, now) ==
    IF f.kind # "plan" THEN Outcome(f, files, Returned("MainPlanNotFound"))
    ELSE LET mainPlan == f.plan
             subtaskSlug == args.subtaskSlug
             at == find(mainPlan, subtaskSlug)
             subtask == mainPlan.sub_tasks[at]
             priority == IF "priority" \in DOMAIN args THEN [priority |-> args.priority]
                         ELSE Passed(subtask, {"priority"})
             generated == generatePlanFrom(catalogFile, subtask.description, subtask.slug,
                              Passed(args, {"workflow"}) @@ priority @@ [type |-> "subtask"], now)
         IN  IF at = 0 THEN Outcome(f, files, Returned("SubtaskNotFound"))
             ELSE IF Exists(SubtaskFile(files, subtaskSlug))
             THEN Outcome(f, files, Returned("SubtaskPlanAlreadyExists"))
             ELSE IF ~generated.ok THEN Outcome(f, files, generated)
             ELSE Outcome(
                    PlanFile(Put(Put(mainPlan, "sub_tasks",
                                     [mainPlan.sub_tasks EXCEPT ![at] = Promoted(subtask, subtaskSlug)]),
                                 "updated", now)),
                    Put(files, subtaskSlug, PlanFile(WithParent(generated.value.plan, mainPlan))),
                    Returned("SubtaskPromoted"))

\* updatePlan: updateStage of a new PlanUpdater on planFile, with the
\* options the handler builds from its arguments.
updatePlan(planFile, args, now) ==
    updateStage(planFile, args.stage,
                [ force        |-> "force" \in DOMAIN args /\ args.force,
                  markComplete |-> ~("incomplete" \in DOMAIN args /\ args.incomplete),
                  sectionData  |-> IF "sectionData" \in DOMAIN args THEN args.sectionData
                                   ELSE <<>> ],
                <<>>, now)

(***************************************************************************)
(* Plan-server runs                                                        *)
(***************************************************************************)
\* Descriptions with the slugs "a-b" and "z".
TaskDescriptions == { << "A", " ", "b" >>, << "Z", "!" >> }

\* Two descriptions with the slug "ab" and one with the slug "c".
SubtaskDescriptions == { << "A", "b" >>, << "a", "b", "!" >>, << "c" >> }

SubtaskSlugs == { generateSlug(description) : description \in SubtaskDescriptions }

\* A subtask listed in a main plan that has no plan of its own yet.
ListedSubtask(description, priority) ==
    [ description |-> description, slug |-> generateSlug(description),
      priority |-> priority, status |-> "pending", created |-> 0 ]

\* A main plan written with its subtasks listed, none of them promoted.
ListedPlan ==
    Put(generatePlan(getDefaultWorkflows, << "A", " ", "b" >>,
                     generateSlug(<< "A", " ", "b" >>), [workflow |-> "small"], 0),
        "sub_tasks", << ListedSubtask(<< "A", "b" >>, "high"),
                        ListedSubtask(<< "c" >>, "low") >>)

ToolWorkflows == { "micro", "small", "constructor" }

CreateArgs(key, descriptions) ==
    UNION { { [d \in {key} |-> description],
              [d \in {key} |-> description] @@ [workflow |-> "small", priority |-> "high"] }
            \cup { [d \in {key} |-> description] @@ [workflow |-> w] : w \in ToolWorkflows }
          : description \in descriptions }

PromoteArgs ==
    { [subtaskSlug |-> subtaskSlug, workflow |-> w] :
         subtaskSlug \in SubtaskSlugs, w \in ToolWorkflows }
      \cup { [subtaskSlug |-> subtaskSlug, workflow |-> "small", priority |-> "medium"] :
               subtaskSlug \in SubtaskSlugs }

UpdateArgs ==
    { [stage |-> stage] : stage \in { "context_gathering", "implementation" } }
      \cup { [stage |-> "implementation", force |-> TRUE],
             [stage |-> "context_gathering", incomplete |-> TRUE] }

InitServer ==
    /\ file \in { AbsentFile, PlanFile(ListedPlan) }
    /\ subtaskFiles = NoSubtaskFiles
    /\ workflowsFile = AbsentCatalog
    /\ request = NoRequest
    /\ reply = NoReply
    /\ warnings = <<>>
    /\ before = file
    /\ lastCall = NoCall
    /\ result = NoResult
    /\ calls = 0
    /\ updaters = NoUpdaters

\* A tool call answered: the files it leaves, and the request recorded with
\* the files it found.
Answer(op, args, out) ==
    /\ file' = out.file
    /\ subtaskFiles' = out.subtaskFiles
    /\ request' = [op |-> op, args |-> args, file |-> file, subtaskFiles |-> subtaskFiles]
    /\ reply' = out.reply
    /\ calls' = calls + 1
    /\ UNCHANGED <<warnings, before, lastCall, result, workflowsFile, updaters>>

CreatePlan(args) ==
    /\ calls < MaxToolCalls
    /\ Answer("create_plan", args,
              createPlan(file, subtaskFiles, workflowsFile, args, calls + 1))

CreateSubtaskPlan(args) ==
    /\ calls < MaxToolCalls
    /\ Answer("create_subtask_plan", args,
              createSubtaskPlan(file, subtaskFiles, workflowsFile, args, calls + 1))

PromoteSubtask(args) ==
    /\ calls < MaxToolCalls
    /\ Answer("promote_subtask", args,
              promoteSubtask(file, subtaskFiles, workflowsFile, args, calls + 1))

\* update_plan with planFile the main plan file
UpdateMainPlan(args) ==
    /\ calls < MaxToolCalls
    /\ LET out == updatePlan(file, args, calls + 1)
       IN  Answer("update_plan", args @@ [planFile |-> mainPlanFile],
                  Outcome(out.file, subtaskFiles, Returned(out.result)))

\* update_plan with planFile the plan file of a subtask
UpdateSubtaskPlan(subtaskSlug, args) ==
    /\ calls < MaxToolCalls
    /\ LET out == updatePlan(SubtaskFile(subtaskFiles, subtaskSlug), args, calls + 1)
       IN  Answer("update_plan", args @@ [planFile |-> subtaskPlanFile(subtaskSlug)],
                  Outcome(file,
                          IF Exists(out.file) THEN Put(subtaskFiles, subtaskSlug, out.file)
                          ELSE subtaskFiles,
                          Returned(out.result)))

NextServer ==
    \/ \E args \in CreateArgs("taskDescription", TaskDescriptions) : CreatePlan(args)
    \/ \E args \in CreateArgs("subtaskDescription", SubtaskDescriptions) : CreateSubtaskPlan(args)
    \/ \E args \in PromoteArgs : PromoteSubtask(args)
    \/ \E args \in UpdateArgs : UpdateMainPlan(args)
    \/ \E subtaskSlug \in SubtaskSlugs, args \in UpdateArgs : UpdateSubtaskPlan(subtaskSlug, args)

SpecServer == InitServer /\ [][NextServer]_vars

(***************************************************************************)
(* Properties of the plan server.  request holds the main plan file and    *)
(* the subtask plan files as the last tool call found them.                *)
(***************************************************************************)
ToolCalled(op) == request.op = op

\* The sub_tasks sequence of a main plan file.
SubTasksOf(f) ==
    IF f.kind = "plan" /\ "sub_tasks" \in DOMAIN f.plan THEN f.plan.sub_tasks ELSE <<>>

\* C22: create_plan on an existing main plan file reports 'already exists'
\* and leaves the stored main plan unchanged; a main plan file comes into
\* existence only through a create_plan call that found none.
C22_CreatePlanNeverOverwrites ==
    /\ ToolCalled("create_plan") /\ Exists(request.file) =>
           /\ reply = Returned("MainPlanAlreadyExists")
           /\ file = request.file
    /\ ~ToolCalled("none") /\ ~Exists(request.file) /\ Exists(file) =>
           /\ ToolCalled("create_plan")
           /\ reply = Returned("MainPlanCreated")

\* create_plan is refused on a main plan that create_subtask_plan has grown.
C22_Witness ==
    /\ ToolCalled("create_plan")
    /\ Exists(request.file)
    /\ Len(SubTasksOf(request.file)) = 3
    /\ reply = Returned("MainPlanAlreadyExists")
    /\ file = request.file

\* C23: a successful create_subtask_plan appends exactly one reference
\* (status 'independent', type 'independent_plan', plan_file set) at the end
\* of the main plan's sub_tasks and writes a subtask plan whose parent_plan
\* holds the main plan's file, task and slug; the call fails without changing
\* the main plan when there is no main plan or when the slug's subtask plan
\* file exists; no two references of the main plan share a slug.
C23_CreateSubtaskPlan ==
    /\ ToolCalled("create_subtask_plan") =>
         LET subtaskSlug == generateSlug(request.args.subtaskDescription)
             old == SubTasksOf(request.file)
             new == SubTasksOf(file)
         IN  /\ reply = Returned("SubtaskPlanCreated") =>
                   /\ Len(new) = Len(old) + 1
                   /\ SubSeq(new, 1, Len(old)) = old
                   /\ new[Len(new)].description = request.args.subtaskDescription
                   /\ new[Len(new)].slug = subtaskSlug
                   /\ new[Len(new)].status = "independent"
                   /\ new[Len(new)].type = "independent_plan"
                   /\ new[Len(new)].plan_file = subtaskPlanFile(subtaskSlug)
                   /\ Exists(SubtaskFile(subtaskFiles, subtaskSlug))
                   /\ SubtaskFile(subtaskFiles, subtaskSlug).plan.parent_plan =
                          [ file |-> mainPlanFile, task |-> request.file.plan.task,
                            slug |-> request.file.plan.slug ]
             /\ (~Exists(request.file) \/ Exists(SubtaskFile(request.subtaskFiles, subtaskSlug))) =>
                   /\ reply # Returned("SubtaskPlanCreated")
                   /\ file = request.file
    /\ \A i, j \in 1..Len(SubTasksOf(file)) :
           i # j => SubTasksOf(file)[i].slug # SubTasksOf(file)[j].slug

\* The frame of C24 on one plan: these fields are present or absent as
\* before, and hold what they held.
FrameFields ==
    { "task", "slug", "workflow", "priority", "created", "parent_plan", "sub_tasks" }

SameFrame(old, new) ==
    \A field \in FrameFields :
        /\ (field \in DOMAIN old) = (field \in DOMAIN new)
        /\ field \in DOMAIN old => old[field] = new[field]

UpdatedMainPlan == ToolCalled("update_plan") /\ request.args.planFile = mainPlanFile

\* The slug of the subtask plan a call of update_plan named.
UpdatedSlug == request.args.planFile[5]

\* C24: a successful updateStage leaves task, slug, workflow, priority,
\* created, parent_plan and sub_tasks of the stored plan as they were, and an
\* update of a subtask plan leaves the main plan file as it was.
C24_UpdateStageFrame ==
    ToolCalled("update_plan") /\ reply.value.success =>
        IF UpdatedMainPlan
        THEN SameFrame(request.file.plan, file.plan)
        ELSE /\ SameFrame(request.subtaskFiles[UpdatedSlug].plan, subtaskFiles[UpdatedSlug].plan)
             /\ file = request.file

\* A subtask plan with its parent reference was moved to the next stage
\* while the main plan holds three references.
C24_Witness ==
    /\ ToolCalled("update_plan")
    /\ reply.value.success
    /\ ~UpdatedMainPlan
    /\ "parent_plan" \in DOMAIN subtaskFiles[UpdatedSlug].plan
    /\ subtaskFiles[UpdatedSlug].plan.phase = "context_gathering"
    /\ request.subtaskFiles[UpdatedSlug].plan.phase = "scope_analysis"
    /\ Len(SubTasksOf(file)) = 3

\* C25: promote_subtask with the slug of a subtask listed in the main
\* plan's sub_tasks succeeds, creates the subtask's plan file (type 'subtask',
\* parent_plan referencing the main plan), sets the reference's status to
\* 'promoted', its type to 'independent_plan' and its plan_file, and leaves
\* every other entry unchanged; subtasks added by create_subtask_plan are
\* among them.  (Stated for workflow arguments that the catalog resolves.)
C25_PromoteListedSubtask ==
    ( /\ ToolCalled("promote_subtask")
      /\ request.file.kind = "plan"
      /\ find(request.file.plan, request.args.subtaskSlug) # 0
      /\ request.args.workflow # "constructor" ) =>
        LET subtaskSlug == request.args.subtaskSlug
            at == find(request.file.plan, subtaskSlug)
            old == SubTasksOf(request.file)
            new == SubTasksOf(file)
        IN  /\ reply = Returned("SubtaskPromoted")
            /\ Exists(SubtaskFile(subtaskFiles, subtaskSlug))
            /\ SubtaskFile(subtaskFiles, subtaskSlug).plan.type = "subtask"
            /\ SubtaskFile(subtaskFiles, subtaskSlug).plan.parent_plan.file = mainPlanFile
            /\ Len(new) = Len(old)
            /\ new[at].status = "promoted"
            /\ new[at].type = "independent_plan"
            /\ new[at].plan_file = subtaskPlanFile(subtaskSlug)
            /\ \A i \in 1..Len(old) : i # at => new[i] = old[i]

(***************************************************************************)
(* Further properties of validateStage and updatePlanStructure, over the   *)
(* stage-flow runs.                                                        *)
(***************************************************************************)
\* The standard stages strictly between the current stage and the target
\* that are present in progress and not complete, in canonical order.
IncompleteBetween ==
    LET Hit(stage) ==
            /\ Index(stage) > Index(CurrentStage(before))
            /\ Index(stage) < Index(lastCall.stage)
            /\ stage \in DOMAIN ProgressOf(before)
            /\ ~Done(before, stage)
    IN  SelectSeq(VALID_STAGES, Hit)

TargetPresent == lastCall.stage \in DOMAIN ProgressOf(before)

\* C26: when the target is more than one canonical position ahead, the
\* outcome is decided by the standard stages strictly between current and
\* target that are present in progress and not complete: when there is none
\* the update succeeds without force and returns the 'Jumping ...
\* (intermediate stages complete)' warning, even when the current stage is
\* not complete.  (Stated for well-formed plans whose progress has an entry
\* for the target.)
C26_JumpDecidedByStagesBetween ==
    (IsJump /\ WellFormed(before) /\ TargetPresent /\ ~lastCall.force
            /\ Len(IncompleteBetween) = 0)
        => /\ result.success
           /\ HasWarning("Jumping")

CustomOnEitherSide ==
    /\ Loaded
    /\ \/ CurrentStage(before) \notin StandardStages
       \/ lastCall.stage \notin StandardStages

\* C27: when the current stage or the target is not a standard stage,
\* updateStage never fails with a stage-order error, whatever force and the
\* completion of other stages are, and no stage other than the target
\* becomes complete.
C27_NoOrderingForCustomStages ==
    CustomOnEitherSide =>
        /\ result.error.kind # "StageOrderViolation"
        /\ \A stage \in DOMAIN ProgressOf(file) \ { lastCall.stage } :
              Done(file, stage) => Done(before, stage)

\* From the custom stage 'prototype' an unforced update reached
\* 'implementation' although the earlier stage scope_analysis is incomplete,
\* and left it incomplete.
C27_Witness ==
    /\ Succeeded
    /\ CurrentStage(before) = "prototype"
    /\ lastCall.stage = "implementation"
    /\ ~lastCall.force
    /\ "scope_analysis" \in DOMAIN ProgressOf(file)
    /\ ~Done(file, "scope_analysis")
    /\ Done(file, "implementation")

\* C28: every successful updateStage on a plan whose status is 'completed'
\* returns the 'already completed' warning, and on a plan whose status is
\* 'failed' the 'marked as failed - updating anyway' warning, for standard
\* and custom target stages alike.
C28_StatusWarnings ==
    (Loaded /\ Succeeded) =>
        /\ StatusOf(before) = "completed" => HasWarning("AlreadyCompleted")
        /\ StatusOf(before) = "failed" => HasWarning("MarkedFailed")

MovedBackwards ==
    /\ Loaded
    /\ CurrentStage(before) \in StandardStages
    /\ lastCall.stage \in StandardStages
    /\ Index(lastCall.stage) < Index(CurrentStage(before))

\* C29: updateStage to a standard stage of lower canonical index than the
\* current one succeeds without force, returns a 'Moving backwards' warning,
\* makes the target the current stage and changes the complete flag of no
\* stage other than the target.  (Stated for well-formed plans.)
C29_MovingBackwards ==
    (MovedBackwards /\ WellFormed(before)) =>
        /\ result.success
        /\ HasWarning("MovingBackwards")
        /\ CurrentStage(file) = lastCall.stage
        /\ \A stage \in (DOMAIN ProgressOf(file) \cup DOMAIN ProgressOf(before))
                            \ { lastCall.stage } :
              Done(file, stage) = Done(before, stage)

(***************************************************************************)
(* The depth of the sectionData merge, over the section-data runs.         *)
(***************************************************************************)
\* A key of sectionData whose stored and new values are both mappings.
BothMappings(key) ==
    /\ key \in DOMAIN PriorEntry
    /\ PriorEntry[key].t = "map"
    /\ SectionData[key].t = "map"

\* C30: the sectionData merge is single-level: when the stored and the new
\* value of a key are both mappings, every top-level sub-key of the result
\* is taken from the new value if present there and from the stored value
\* otherwise, and a nested mapping under a sub-key of the new value replaces
\* the stored one: it keeps no key of the stored nested mapping.
C30_SingleLevelMerge ==
    (Succeeded /\ lastCall.given) =>
        \A key \in DOMAIN SectionData :
            BothMappings(key) =>
                /\ TargetEntry[key].t = "map"
                /\ \A k \in SubKeys :
                      LET old == PriorEntry[key].m[k]
                          new == SectionData[key].m[k]
                          merged == TargetEntry[key].m[k]
                      IN  /\ new = 0 => merged = old
                          /\ new # 0 => merged = new
                          /\ IsNestedMap(new) =>
                                \A j \in SubKeys : NestedGet(merged, j) = NestedGet(new, j)

\* The stored findings.a was { a: 1 }, the new one is { b: 2 }: the result
\* is { b: 2 }, and the top-level sub-key b of the stored mapping is kept.
C30_Witness ==
    /\ Succeeded /\ lastCall.given
    /\ "findings" \in DOMAIN SectionData
    /\ BothMappings("findings")
    /\ PriorEntry["findings"].m["a"] = NestedMap(1, 0)
    /\ PriorEntry["findings"].m["b"] = 2
    /\ SectionData["findings"].m["a"] = NestedMap(0, 2)
    /\ SectionData["findings"].m["b"] = 0
    /\ NestedGet(TargetEntry["findings"].m["a"], "a") = 0
    /\ NestedGet(TargetEntry["findings"].m["a"], "b") = 2
    /\ TargetEntry["findings"].m["b"] = 2

(***************************************************************************)
(* Which progress entries updateStage creates, and what it persists.       *)
(***************************************************************************)
\* The target of the last call had no progress entry and sectionData was passed.
TargetSynthesised == lastCall.stage \notin DOMAIN ProgressOf(before) /\ lastCall.given

\* The registry's empty shape for the target with sectionData merged in:
\* under a key, two mappings merge sub-key by sub-key, anything else is the
\* new value.
ShapeWithSectionData(key) ==
    LET shape == createStageProgress(lastCall.stage)
    IN  IF key \notin DOMAIN SectionData THEN shape[key]
        ELSE IF key \in DOMAIN shape /\ shape[key].t = "map" /\ SectionData[key].t = "map"
        THEN VMap([k \in SubKeys |-> IF SectionData[key].m[k] # 0 THEN SectionData[key].m[k]
                                     ELSE shape[key].m[k]])
        ELSE SectionData[key]

\* C31: after a successful updateStage the keys of progress are the keys
\* before the call, plus the target when it was absent and sectionData was
\* passed; that new entry is the registry's empty shape for the stage with
\* the sectionData merged in (its complete flag being true when markComplete
\* is true).
C31_OnlyTargetSynthesised ==
    Succeeded =>
        /\ DOMAIN ProgressOf(file) =
              IF TargetSynthesised
              THEN DOMAIN ProgressOf(before) \cup { lastCall.stage }
              ELSE DOMAIN ProgressOf(before)
        /\ TargetSynthesised =>
              /\ DOMAIN TargetEntry =
                    DOMAIN createStageProgress(lastCall.stage) \cup DOMAIN SectionData
              /\ \A key \in DOMAIN TargetEntry :
                    IF key = "complete" /\ lastCall.markComplete
                    THEN TargetEntry[key] = VBool(TRUE)
                    ELSE TargetEntry[key] = ShapeWithSectionData(key)

\* The custom stage 'prototype' was added to a plan of the small workflow
\* with its data; no other stage appeared.
C31_Witness ==
    /\ Succeeded
    /\ TargetSynthesised
    /\ lastCall.stage = "prototype"
    /\ "data" \in DOMAIN SectionData
    /\ TargetEntry["data"] = SectionData["data"]
    /\ TargetEntry["notes"] = SectionData["notes"]
    /\ DOMAIN ProgressOf(file) = DOMAIN ProgressOf(before) \cup { "prototype" }
    /\ "context_gathering" \in DOMAIN ProgressOf(before)


\* C32: every record persisted by updateStage has the required top-level
\* fields, and every entry of its progress is a mapping with a complete
\* field whose value is a boolean, whatever sectionData the caller passed.
C32_PersistedRecordValid ==
    Succeeded =>
        /\ WellFormed(file)
        /\ \A stage \in DOMAIN ProgressOf(file) :
              ProgressOf(file)[stage]["complete"].t = "bool"


\* C33: the current stage of a plan that generatePlan returns is a key of
\* the plan's progress, for every workflow type, catalog and option set
\* (an explicit initialPhase and a workflow without steps included).
C33_InitialPhaseInProgress ==
    (request.op = "generatePlan" /\ reply.ok) =>
        reply.value.plan.phase \in DOMAIN reply.value.plan.progress

(***************************************************************************)
(* Workflow drives: a plan of a built-in workflow is taken through its     *)
(* steps in workflow order, one updateStage per step, as the integration   *)
(* tests do.  request.at is the position of the step updated last; a drive *)
(* begins with the first step (the initial phase) or with the second.      *)
(***************************************************************************)
BuiltInWorkflows == DOMAIN getDefaultWorkflows.workflows

\* Options the driven plans are generated with.
DrivenPlanOptions ==
    { [workflow |-> w] : w \in BuiltInWorkflows }
      \cup { [workflow |-> w, type |-> "subtask"] : w \in BuiltInWorkflows }
      \cup { [workflow |-> w, status |-> "failed"] : w \in BuiltInWorkflows }

\* Options of a step of the drive: none, or the sectionData: {} that the
\* update_plan tool passes.
DriveOptions == { <<>>, [sectionData |-> <<>>] }

InitDrive ==
    /\ \E options \in DrivenPlanOptions, first \in {0, 1} :
          /\ file = PlanFile(generatePlan(getDefaultWorkflows, "Test Task", "test-task",
                                          options, 0))
          /\ request = [op |-> "drive", workflow |-> options.workflow,
                        steps |-> getWorkflowSteps(getDefaultWorkflows, options.workflow),
                        at |-> first]
    /\ workflowsFile = AbsentCatalog
    /\ reply = NoReply
    /\ warnings = <<>>
    /\ before = file
    /\ lastCall = NoCall
    /\ result = NoResult
    /\ calls = 0
    /\ updaters = NoUpdaters
    /\ subtaskFiles = NoSubtaskFiles

\* The next step of the drive, on the updater used so far (reuse) or on a
\* new one.
DriveStep(options, reuse) ==
    /\ request.op = "drive"
    /\ request.at < Len(request.steps)
    /\ LET opts == WithDefaults(options)
           targetStage == request.steps[request.at + 1]
           out == updateStage(file, targetStage, opts, IF reuse THEN warnings ELSE <<>>,
                              calls + 1)
       IN  /\ file' = out.file
           /\ warnings' = out.warnings
           /\ result' = out.result
           /\ lastCall' = [stage |-> targetStage, force |-> opts.force,
                           markComplete |-> opts.markComplete,
                           given |-> "sectionData" \in DOMAIN opts,
                           sectionData |-> IF "sectionData" \in DOMAIN opts
                                           THEN opts.sectionData ELSE <<>>]
    /\ before' = file
    /\ calls' = calls + 1
    /\ request' = [request EXCEPT !.at = @ + 1]
    /\ UNCHANGED <<workflowsFile, reply, updaters, subtaskFiles>>

NextDrive == \E options \in DriveOptions, reuse \in BOOLEAN : DriveStep(options, reuse)

SpecDrive == InitDrive /\ [][NextDrive]_vars

\* C34: every step of a drive of a built-in workflow, made with default
\* options, succeeds, and the status of the plan is 'completed' exactly from
\* the update of the last workflow step on.
C34_DriveCompletesAtLastStep ==
    request.op = "drive" =>
        /\ Called => result.success /\ CurrentStage(file) = request.steps[request.at]
        /\ StatusOf(file) = "completed" <=> (Called /\ request.at = Len(request.steps))

\* The drive of the small workflow, begun at its second step, has reached
\* its last step over the jump from context_gathering to implementation.
C34_Witness ==
    /\ request.op = "drive"
    /\ request.workflow = "small"
    /\ calls = 3
    /\ request.at = Len(request.steps)
    /\ result.success
    /\ StatusOf(before) = "pending"
    /\ StatusOf(file) = "completed"
    /\ AllDone(file)


\* The last call went from a step of the plan's built-in workflow to the
\* step that follows it in that workflow.
ToNextWorkflowStep ==
    /\ Loaded
    /\ WellFormed(before)
    /\ before.plan.workflow \in BuiltInWorkflows
    /\ LET steps == getWorkflowSteps(getDefaultWorkflows, before.plan.workflow)
       IN  \E i \in 1..(Len(steps) - 1) :
              /\ CurrentStage(before) = steps[i]
              /\ lastCall.stage = steps[i + 1]

\* C35: for every built-in workflow, updateStage from a step to the next
\* step of the same workflow succeeds without force, whether or not the
\* current step is complete and whether or not the two steps are adjacent in
\* the canonical ordering.  (Stated for targets that have a progress entry.)
C35_NextWorkflowStepSucceeds ==
    (ToNextWorkflowStep /\ TargetPresent /\ ~lastCall.force) => result.success


(***************************************************************************)
(* Mixed runs: stage updates and checklist edits, in any order, of one     *)
(* plan file.  No sectionData of these runs carries the key 'complete'.    *)
(***************************************************************************)
\* The medium plan with a filled solution_design checklist after
\* updateStage('scope_analysis') and updateStage('solution_design', { force }).
AdvancedFile ==
    LET toScope == updateStage(PlanFile(WithChecklist(VArr(FilledChecklist))),
                               "scope_analysis", WithDefaults(<<>>), <<>>, 0)
    IN  updateStage(toScope.file, "solution_design",
                    WithDefaults([force |-> TRUE]), <<>>, 0).file

MixedFiles ==
    { PlanFile(WithChecklist(VArr(FilledChecklist))),
      AdvancedFile,
      PlanFile(generatePlan(CustomWorkflows, "Custom Test", "custom-test",
                            [workflow |-> "custom"], 0)) }

\* Stages updated: backward and forward of solution_design, and a custom one.
MixedTargets == { "scope_analysis", "solution_design", "implementation", "prototype" }

MixedSectionData == { [findings |-> VStr("text")] }

\* Checklist edits of the mixed runs: every item or no item of the
\* solution_design checklist, and items added to a stage with and without one.
MixedUpdateItemArgs ==
    { [stage |-> "solution_design", taskPattern |-> pat] @@ c :
        pat \in { <<>>, << "z" >> },
        c \in { <<>>, [complete |-> FALSE] } }

MixedAddItemArgs ==
    { [stage |-> st, task |-> << "a", "b" >>] @@ c @@ at :
        st \in { "solution_design", "implementation" },
        c \in { <<>>, [complete |-> TRUE] },
        at \in { <<>>, [insertAt |-> 0] } }

InitMixed ==
    /\ file \in MixedFiles
    /\ before = file
    /\ calls = 0
    /\ warnings = <<>>
    /\ lastCall = NoCall
    /\ result = NoResult
    /\ OnlySequentialUpdates

NextMixed ==
    \/ \E targetStage \in MixedTargets,
          options \in OptionsOver({ <<>>, [force |-> TRUE] }, MixedSectionData) :
           UpdateStage(<<>>, targetStage, options)
    \/ \E args \in MixedUpdateItemArgs : UpdateChecklistItem(args)
    \/ \E args \in MixedAddItemArgs : AddChecklistItem(args)

SpecMixed == InitMixed /\ [][NextMixed]_vars

\* C36: stage completion is monotonic under sequential updates: over any
\* sequence of updateStage calls whose sectionData does not contain the key
\* 'complete' (forward, backward, forced or custom-stage updates, with
\* either markComplete value) and of checklist operations, a progress entry
\* whose complete flag is true in the stored record when an operation begins
\* still has complete true when it returns.
C36_CompletionMonotonic ==
    /\ file.kind = before.kind
    /\ \A stage \in DOMAIN ProgressOf(before) :
         Done(before, stage) => Done(file, stage)

\* After a checklist edit, updateStage with markComplete false has succeeded
\* on a stage that was complete, and the stage is still complete.
C36_Witness ==
    /\ calls = 2
    /\ request.op \in { "updateChecklistItem", "addChecklistItem" }
    /\ reply.ok
    /\ result.success /\ result.updatedAt = 2
    /\ ~lastCall.markComplete
    /\ Done(before, lastCall.stage)
    /\ Done(file, lastCall.stage)


\* The options of the last updateStage call.
LastOptions ==
    [force |-> lastCall.force, markComplete |-> lastCall.markComplete]
        @@ (IF lastCall.given THEN [sectionData |-> lastCall.sectionData] ELSE <<>>)

\* The warnings the last call generates by itself: those of the same call on
\* an updater whose warnings list is empty.
OwnWarnings ==
    updateStage(before, lastCall.stage, LastOptions, <<>>, calls).result.warnings

\* C37: the warnings returned by an updateStage call are only those generated
\* while processing that call: on a PlanUpdater used for several calls, the
\* warnings of an earlier call do not appear in the result of a later one.
C37_OnlyOwnWarnings ==
    Succeeded => result.warnings = OwnWarnings


\* The last call was a checklist operation that reported success.
EditSucceeded ==
    /\ request.op \in { "updateChecklistItem", "addChecklistItem" }
    /\ before.kind = "plan"
    /\ reply.ok

\* C38: checklist operations are confined to the checklist: a successful
\* updateChecklistItem or addChecklistItem changes only the checklist of the
\* stage it names and the updated timestamp; the current stage, the plan
\* status, every stage's complete flag, the other fields of the stage and
\* every other stage's data are unchanged, even when the operation leaves
\* every checklist item complete.
C38_ChecklistFrame ==
    EditSucceeded =>
        /\ file.kind = "plan"
        /\ DOMAIN file.plan = DOMAIN before.plan \cup { "updated" }
        /\ \A field \in DOMAIN before.plan \ { "updated", "progress" } :
             file.plan[field] = before.plan[field]
        /\ DOMAIN ProgressOf(file) = DOMAIN ProgressOf(before)
        /\ \A stage \in DOMAIN ProgressOf(before) \ { EditStage } :
             ProgressOf(file)[stage] = ProgressOf(before)[stage]
        /\ DOMAIN EntryAfter = DOMAIN EntryBefore \cup { "checklist" }
        /\ \A key \in DOMAIN EntryBefore \ { "checklist" } :
             EntryAfter[key] = EntryBefore[key]

\* An update that leaves all three items of the checklist complete while the
\* stage itself stays incomplete.
C38_Witness ==
    /\ EditOf("updateChecklistItem")
    /\ reply.ok
    /\ ItemsBefore = FilledChecklist
    /\ \A i \in 1..Len(ItemsAfter) : ItemsAfter[i].complete
    /\ ~Done(file, EditStage)
    /\ CurrentStage(file) = CurrentStage(before)
    /\ StatusOf(file) = StatusOf(before)
    /\ file # before


\* No step occurs twice.
DuplicateFree(steps) ==
    \A i, j \in 1..Len(steps) : steps[i] = steps[j] => i = j

\* C39: for a duplicate-free non-empty step list, the result of getNextSteps
\* is internally consistent: isComplete is true only when the current stage
\* is the last step and completed is true; whenever isComplete is true,
\* nextStep is null and remainingSteps is empty; and whenever nextStep is
\* null for a current stage of the workflow, remainingSteps is empty.
C39_NextStepsConsistent ==
    (NextStepsCall /\ CallSteps # <<>> /\ DuplicateFree(CallSteps)) =>
        /\ reply.ok
        /\ reply.value.isComplete =>
             /\ request.completed
             /\ request.currentPhase = CallSteps[Len(CallSteps)]
             /\ reply.value.nextStep = "null"
             /\ reply.value.remainingSteps = <<>>
        /\ (Occurs(CallSteps, request.currentPhase) /\ reply.value.nextStep = "null") =>
             reply.value.remainingSteps = <<>>

\* The last step of a workflow of several steps, given as completed.
C39_Witness ==
    /\ NextStepsCall
    /\ Len(CallSteps) > 1 /\ DuplicateFree(CallSteps)
    /\ request.currentPhase = CallSteps[Len(CallSteps)]
    /\ request.completed
    /\ reply.ok
    /\ reply.value.isComplete
    /\ reply.value.nextStep = "null"
    /\ reply.value.remainingSteps = <<>>


(***************************************************************************)
(* Interleaved tool calls: two create_subtask_plan requests handled by the *)
(* server at once.  A handler gives way to the other at each of its file   *)
(* reads and writes.                                                       *)
(***************************************************************************)
Handlers == { 1, 2 }

IdleHandler ==
    [pc |-> "idle", args |-> <<>>, mainPlan |-> <<>>, subtaskPlan |-> <<>>,
     reply |-> NoReply]

\* Arguments of the two requests: two descriptions of one slug and one of
\* another, with and without a priority, and one workflow that fails.
InterleavedArgs ==
    { [subtaskDescription |-> description] @@ rest :
        description \in SubtaskDescriptions,
        rest \in { [workflow |-> "small"], [workflow |-> "micro", priority |-> "high"],
                   [workflow |-> "constructor"] } }

InitInterleaved ==
    /\ file \in { AbsentFile, PlanFile(ListedPlan) }
    /\ subtaskFiles = NoSubtaskFiles
    /\ updaters = [h \in Handlers |-> IdleHandler]
    /\ calls = 0
    /\ workflowsFile = AbsentCatalog
    /\ request = NoRequest
    /\ reply = NoReply
    /\ warnings = <<>>
    /\ before = file
    /\ lastCall = NoCall
    /\ result = NoResult

HandlerSlug(h) == generateSlug(updaters[h].args.subtaskDescription)

\* A step of handler h: its next position and what it now holds.
HandlerStep(h, next) ==
    /\ updaters' = [updaters EXCEPT ![h] = next]
    /\ calls' = calls + 1
    /\ UNCHANGED <<warnings, before, lastCall, result, workflowsFile, request, reply>>

\* The dispatcher hands a create_subtask_plan request to createSubtaskPlan.
ReceiveRequest(h, args) ==
    /\ updaters[h].pc = "idle"
    /\ HandlerStep(h, [updaters[h] EXCEPT !.pc = "reading", !.args = args])
    /\ UNCHANGED <<file, subtaskFiles>>

\* fs.access and fs.readFile of the main plan file.
ReadMainPlan(h) ==
    /\ updaters[h].pc = "reading"
    /\ HandlerStep(h,
           IF ~Exists(file)
           THEN [updaters[h] EXCEPT !.pc = "done", !.reply = Returned("MainPlanNotFound")]
           ELSE [updaters[h] EXCEPT !.pc = "checking", !.mainPlan = file.plan])
    /\ UNCHANGED <<file, subtaskFiles>>

\* fs.access of the subtask plan file, then generatePlan and the parent
\* reference.
CheckSubtaskFile(h) ==
    /\ updaters[h].pc = "checking"
    /\ LET args == updaters[h].args
           generated == generatePlanFrom(workflowsFile, args.subtaskDescription,
                            HandlerSlug(h),
                            Passed(args, {"workflow", "priority", "status"})
                                @@ [type |-> "subtask"], calls + 1)
       IN  HandlerStep(h,
               IF Exists(SubtaskFile(subtaskFiles, HandlerSlug(h)))
               THEN [updaters[h] EXCEPT !.pc = "done",
                                        !.reply = Returned("SubtaskPlanAlreadyExists")]
               ELSE IF ~generated.ok
               THEN [updaters[h] EXCEPT !.pc = "done", !.reply = generated]
               ELSE [updaters[h] EXCEPT
                        !.pc = "writing_subtask",
                        !.subtaskPlan = WithParent(generated.value.plan,
                                                   updaters[h].mainPlan)])
    /\ UNCHANGED <<file, subtaskFiles>>

\* fs.writeFile(subtaskPlanFile, yaml.dump(subtaskPlan)).
WriteSubtaskPlan(h) ==
    /\ updaters[h].pc = "writing_subtask"
    /\ subtaskFiles' = Put(subtaskFiles, HandlerSlug(h), PlanFile(updaters[h].subtaskPlan))
    /\ HandlerStep(h, [updaters[h] EXCEPT !.pc = "writing_main"])
    /\ UNCHANGED file

\* The reference pushed to the handler's copy of the main plan, and
\* fs.writeFile(mainPlanFile, yaml.dump(mainPlan)).
WriteMainPlan(h) ==
    /\ updaters[h].pc = "writing_main"
    /\ LET args == updaters[h].args
           mainPlan == updaters[h].mainPlan
           reference ==
               [ description |-> args.subtaskDescription,
                 slug        |-> HandlerSlug(h),
                 priority    |-> IF "priority" \in DOMAIN args THEN args.priority
                                 ELSE "medium",
                 status      |-> "independent",
                 type        |-> "independent_plan",
                 plan_file   |-> subtaskPlanFile(HandlerSlug(h)),
                 created     |-> calls + 1 ]
           sub_tasks == IF "sub_tasks" \in DOMAIN mainPlan THEN mainPlan.sub_tasks ELSE <<>>
       IN  file' = PlanFile(Put(Put(mainPlan, "sub_tasks", PushReference(sub_tasks, reference)),
                                "updated", calls + 1))
    /\ HandlerStep(h, [updaters[h] EXCEPT !.pc = "done",
                                         !.reply = Returned("SubtaskPlanCreated")])
    /\ UNCHANGED subtaskFiles

NextInterleaved ==
    \/ \E h \in Handlers, args \in InterleavedArgs : ReceiveRequest(h, args)
    \/ \E h \in Handlers : ReadMainPlan(h)
    \/ \E h \in Handlers : CheckSubtaskFile(h)
    \/ \E h \in Handlers : WriteSubtaskPlan(h)
    \/ \E h \in Handlers : WriteMainPlan(h)

SpecInterleaved == InitInterleaved /\ [][NextInterleaved]_vars

\* Both requests have been answered with success.
BothCreated ==
    \A h \in Handlers :
        updaters[h].pc = "done" /\ updaters[h].reply = Returned("SubtaskPlanCreated")

\* The main plan lists the subtask plan file of the slug.
Referenced(subtaskSlug) ==
    \E i \in 1..Len(SubTasksOf(file)) :
        /\ "plan_file" \in DOMAIN SubTasksOf(file)[i]
        /\ SubTasksOf(file)[i].plan_file = subtaskPlanFile(subtaskSlug)

\* C40: when two create_subtask_plan requests with different slugs are
\* processed with their file reads and writes interleaved and both report
\* success, the main plan's sub_tasks afterwards holds a reference for each
\* of the two created subtask plan files.
C40_BothSubtasksReferenced ==
    (BothCreated /\ HandlerSlug(1) # HandlerSlug(2)) =>
        \A h \in Handlers :
            /\ Exists(SubtaskFile(subtaskFiles, HandlerSlug(h)))
            /\ Referenced(HandlerSlug(h))

====
